---------------------------- MODULE Spec2Model ----------------------------
(***************************************************************************)
(* Model of the stream_json writer engine (src/src/stream_json_write.c,    *)
(* declarations in stream_json.h).  Bytes are one-character strings, C     *)
(* strings are sequences of bytes.  Every C function is an operator on a   *)
(* "world" record w: w.c is the sjson_context_t, w.sent the bytes the      *)
(* send callback accepted, w.calls the callback invocations made by the    *)
(* running operation, w.budget the number of invocations the callback      *)
(* accepts before it starts returning false, and w.status the value the    *)
(* function returned.                                                      *)
(***************************************************************************)
EXTENDS Integers, Sequences, FiniteSets, TLC

VARIABLES ctx, sent, last, twin, twinSent, fails, opens, env, scan

vars == <<ctx, sent, last, twin, twinSent, fails, opens, env, scan>>

-----------------------------------------------------------------------------
(* Bounds of the model *)

MaxCap == 2
MaxDoc == 9
MaxBudget == 1
MaxCount == 1
MaxFails == 1
ReliableMaxDoc == 10
DeepCap == 1
DeepExtraOpens == 0
EndMaxOpens == 3

-----------------------------------------------------------------------------
(* Program constants *)

SJSON_MAX_DEPTH == 8
StringBufSize == 256
IntBufSize == 128
FloatBufSize == 128
IntArrayKeyBufSize == 64
FloatArrayKeyBufSize == 64
ArrayValueBufSize == 32
ArrayKeyMax == 128
ObjectKeyBufSize == 128
ElementBufSize == 32
Uint8Mod == 256

SJSON_OK == "SJSON_OK"
SJSON_ERROR_INVALID_STATE == "SJSON_ERROR_INVALID_STATE"
SJSON_ERROR_MAX_DEPTH == "SJSON_ERROR_MAX_DEPTH"
SJSON_ERROR_BUFFER_FULL == "SJSON_ERROR_BUFFER_FULL"
SJSON_ERROR_INVALID_PARAM == "SJSON_ERROR_INVALID_PARAM"

NUL == ""
NULLP == <<"NULL">>

(* A null values pointer of the convenience arrays *)
IsNullValues(values) == Len(values) = 1 /\ values[1] \notin Int

-----------------------------------------------------------------------------
(* Formatting: what snprintf's %ld and %.6f produce *)

DigitChar(d) == CASE d = 0 -> "0" [] d = 1 -> "1" [] d = 2 -> "2" [] d = 3 -> "3"
                  [] d = 4 -> "4" [] d = 5 -> "5" [] d = 6 -> "6" [] d = 7 -> "7"
                  [] d = 8 -> "8" [] d = 9 -> "9"

RECURSIVE NatDigits(_)
NatDigits(n) == IF n < 10 THEN <<DigitChar(n)>>
                ELSE NatDigits(n \div 10) \o <<DigitChar(n % 10)>>

FormatLong(v) == IF v < 0 THEN <<"-">> \o NatDigits(-v) ELSE NatDigits(v)

RECURSIVE PadDigits(_, _)
PadDigits(n, width) == IF width = 0 THEN <<>>
                       ELSE PadDigits(n \div 10, width - 1) \o <<DigitChar(n % 10)>>

(* A float is held as its value in millionths; the model draws floats that *)
(* are dyadic fractions, which float, double and %.6f all hold exactly.    *)
FormatFloat6(v) ==
    LET a == IF v < 0 THEN -v ELSE v
    IN (IF v < 0 THEN <<"-">> ELSE <<>>) \o NatDigits(a \div 1000000)
           \o <<".">> \o PadDigits(a % 1000000, 6)

FloatCast(v) == v

-----------------------------------------------------------------------------
(* Internal helpers of stream_json_write.c *)

Ret(w, st) == [w EXCEPT !.status = st]

(* The send callback: the environment accepts the first w.budget            *)
(* invocations of an operation and rejects the later ones.                  *)
send_callback(w) == Len(w.calls) + 1 <= w.budget

(* A faulty flush: the buffered bytes are dropped when the sink refuses     *)
(* them.                                                                   *)
sjson_Flush_discarding(w) ==
    IF w.c.used = 0 THEN Ret(w, SJSON_OK)
    ELSE LET data == SubSeq(w.c.buffer, 1, w.c.used)
             result == send_callback(w)
             w1 == [w EXCEPT !.calls = Append(@, [data |-> data, ok |-> result]),
                             !.sent = IF result THEN @ \o data ELSE @,
                             !.c.used = 0, !.c.buffer = <<>>]
         IN Ret(w1, IF result THEN SJSON_OK ELSE SJSON_ERROR_BUFFER_FULL)

(* A faulty flush: the sink is invoked even when nothing is buffered.      *)
sjson_Flush_unconditional(w) ==
    LET data == SubSeq(w.c.buffer, 1, w.c.used)
        result == send_callback(w)
        w1 == [w EXCEPT !.calls = Append(@, [data |-> data, ok |-> result]),
                        !.sent = IF result THEN @ \o data ELSE @]
    IN IF ~result THEN Ret(w1, SJSON_ERROR_BUFFER_FULL)
       ELSE Ret([w1 EXCEPT !.c.used = 0, !.c.buffer = <<>>], SJSON_OK)

sjson_Flush(w) ==
    IF w.c.used = 0 THEN Ret(w, SJSON_OK)
    ELSE LET data == SubSeq(w.c.buffer, 1, w.c.used)
             result == send_callback(w)
             w1 == [w EXCEPT !.calls = Append(@, [data |-> data, ok |-> result]),
                             !.sent = IF result THEN @ \o data ELSE @]
         IN IF ~result THEN Ret(w1, SJSON_ERROR_BUFFER_FULL)
            ELSE Ret([w1 EXCEPT !.c.used = 0, !.c.buffer = <<>>], SJSON_OK)

(* A faulty copy loop: the data is copied whole, whatever space is free.   *)
write_loop_unbounded(w, data) ==
    IF Len(data) = 0 THEN Ret(w, SJSON_OK)
    ELSE LET w1 == [w EXCEPT !.c.buffer = SubSeq(@, 1, w.c.used) \o data,
                             !.c.used = @ + Len(data)]
         IN IF w1.c.used = w1.c.buffer_size THEN sjson_Flush(w1) ELSE Ret(w1, SJSON_OK)

(* A faulty copy loop: the part of the data that does not fit the free      *)
(* space is dropped instead of being written after the flush.              *)
write_loop_truncating(w, data) ==
    IF Len(data) = 0 THEN Ret(w, SJSON_OK)
    ELSE LET available == w.c.buffer_size - w.c.used
             to_write == IF Len(data) < available THEN Len(data) ELSE available
             w1 == [w EXCEPT !.c.buffer = SubSeq(@, 1, w.c.used) \o SubSeq(data, 1, to_write),
                             !.c.used = @ + to_write]
         IN IF w1.c.used = w1.c.buffer_size THEN sjson_Flush(w1) ELSE Ret(w1, SJSON_OK)

RECURSIVE write_loop(_, _)
write_loop(w, data) ==
    IF Len(data) = 0 THEN Ret(w, SJSON_OK)
    ELSE LET available == w.c.buffer_size - w.c.used
             to_write == IF Len(data) < available THEN Len(data) ELSE available
             w1 == [w EXCEPT !.c.buffer = SubSeq(@, 1, w.c.used) \o SubSeq(data, 1, to_write),
                             !.c.used = @ + to_write]
             r == IF w1.c.used = w1.c.buffer_size THEN sjson_Flush(w1) ELSE Ret(w1, SJSON_OK)
         IN IF r.status # SJSON_OK THEN r
            ELSE write_loop(r, SubSeq(data, to_write + 1, Len(data)))

(* A faulty write: a refused flush of the full buffer is tried again.       *)
write_retrying(w, data) ==
    IF data = NULLP THEN Ret(w, SJSON_ERROR_INVALID_PARAM)
    ELSE LET r0 == IF w.c.buffer_size = w.c.used THEN sjson_Flush(w) ELSE Ret(w, SJSON_OK)
             r == IF r0.status # SJSON_OK THEN sjson_Flush(r0) ELSE r0
         IN IF r.status # SJSON_OK THEN r ELSE write_loop(r, data)

(* A faulty write: whatever was written is flushed at once.                *)
write_flushing(w, data) ==
    IF data = NULLP THEN Ret(w, SJSON_ERROR_INVALID_PARAM)
    ELSE LET r == IF w.c.buffer_size = w.c.used THEN sjson_Flush(w) ELSE Ret(w, SJSON_OK)
             r1 == IF r.status # SJSON_OK THEN r ELSE write_loop(r, data)
         IN IF r1.status # SJSON_OK THEN r1 ELSE sjson_Flush(r1)

write(w, data) ==
    IF data = NULLP THEN Ret(w, SJSON_ERROR_INVALID_PARAM)
    ELSE LET r == IF w.c.buffer_size = w.c.used THEN sjson_Flush(w) ELSE Ret(w, SJSON_OK)
         IN IF r.status # SJSON_OK THEN r ELSE write_loop(r, data)

write_str(w, str) == write(w, str)

write_char(w, c) == write(w, <<c>>)

add_comma_if_needed(w) ==
    LET r == IF w.c.needs_comma[w.c.depth] THEN write_char(w, ",") ELSE Ret(w, SJSON_OK)
    IN IF r.status # SJSON_OK THEN r
       ELSE Ret([r EXCEPT !.c.needs_comma[w.c.depth] = TRUE], SJSON_OK)

(* A faulty state check: only the kind of the top collection is looked at. *)
check_object_state_top_only(w) ==
    IF w.c.depth > 0 /\ w.c.depth_stack[w.c.depth - 1] # "}"
    THEN Ret(w, SJSON_ERROR_INVALID_STATE)
    ELSE Ret(w, SJSON_OK)

check_object_state(w) ==
    IF w.c.finalized THEN Ret(w, SJSON_ERROR_INVALID_STATE)
    ELSE IF w.c.depth = 0 \/ w.c.depth_stack[w.c.depth - 1] # "}"
         THEN Ret(w, SJSON_ERROR_INVALID_STATE)
         ELSE Ret(w, SJSON_OK)

(* A faulty state check: the kind of the top collection is not looked at.  *)
check_array_state_any_kind(w) ==
    IF w.c.finalized \/ w.c.depth = 0
    THEN Ret(w, SJSON_ERROR_INVALID_STATE)
    ELSE Ret(w, SJSON_OK)

check_array_state(w) ==
    IF w.c.finalized THEN Ret(w, SJSON_ERROR_INVALID_STATE)
    ELSE IF w.c.depth = 0 \/ w.c.depth_stack[w.c.depth - 1] # "]"
         THEN Ret(w, SJSON_ERROR_INVALID_STATE)
         ELSE Ret(w, SJSON_OK)

(* snprintf(buffer, size, ...) returns the length of the formatted text;   *)
(* the callers reject written >= size.                                      *)
Truncated(text, size) == Len(text) >= size

-----------------------------------------------------------------------------
(* Public API: initialization, Close, End *)

ZeroStack == [i \in 0..SJSON_MAX_DEPTH |-> NUL]
ZeroFlags == [i \in 0..SJSON_MAX_DEPTH |-> FALSE]

Push(w, closer) ==
    [w EXCEPT !.c.depth_stack[w.c.depth] = closer,
              !.c.depth = (w.c.depth + 1) % Uint8Mod,
              !.c.needs_comma[(w.c.depth + 1) % Uint8Mod] = FALSE]

(* A faulty initialisation: the finalized flag is left as it was.          *)
InitContext_keep_finalized(w, buffer_size) ==
    [w EXCEPT !.c = [buffer |-> <<>>, buffer_size |-> buffer_size, used |-> 0,
                     depth |-> 0, max_depth |-> SJSON_MAX_DEPTH, finalized |-> w.c.finalized,
                     depth_stack |-> ZeroStack, needs_comma |-> ZeroFlags]]

InitContext(w, buffer_size) ==
    [w EXCEPT !.c = [buffer |-> <<>>, buffer_size |-> buffer_size, used |-> 0,
                     depth |-> 0, max_depth |-> SJSON_MAX_DEPTH, finalized |-> FALSE,
                     depth_stack |-> ZeroStack, needs_comma |-> ZeroFlags]]

sjson_InitObject(w, has_buffer, buffer_size, has_callback) ==
    IF ~has_buffer \/ buffer_size = 0 \/ ~has_callback
    THEN Ret(w, SJSON_ERROR_INVALID_PARAM)
    ELSE LET r == write_char(InitContext(w, buffer_size), "{")
         IN IF r.status # SJSON_OK THEN r ELSE Ret(Push(r, "}"), SJSON_OK)

sjson_InitArray(w, has_buffer, buffer_size, has_callback) ==
    IF ~has_buffer \/ buffer_size = 0 \/ ~has_callback
    THEN Ret(w, SJSON_ERROR_INVALID_PARAM)
    ELSE LET r == write_char(InitContext(w, buffer_size), "[")
         IN IF r.status # SJSON_OK THEN r ELSE Ret(Push(r, "]"), SJSON_OK)

(* A faulty close: the close of the root collection is not recorded.       *)
sjson_Close_not_finalizing(w) ==
    IF w.c.finalized \/ w.c.depth = 0 THEN Ret(w, SJSON_ERROR_INVALID_STATE)
    ELSE LET w1 == [w EXCEPT !.c.depth = w.c.depth - 1]
             r == write_char(w1, w1.c.depth_stack[w1.c.depth])
         IN IF r.status # SJSON_OK
            THEN [r EXCEPT !.c.depth = (r.c.depth + 1) % Uint8Mod]
            ELSE IF r.c.depth = 0
                 THEN sjson_Flush(r)
                 ELSE Ret([r EXCEPT !.c.needs_comma[r.c.depth] = TRUE], SJSON_OK)

(* A faulty close: the depth is not restored when the closer is refused.   *)
sjson_Close_no_rollback(w) ==
    IF w.c.finalized \/ w.c.depth = 0 THEN Ret(w, SJSON_ERROR_INVALID_STATE)
    ELSE LET w1 == [w EXCEPT !.c.depth = w.c.depth - 1]
             r == write_char(w1, w1.c.depth_stack[w1.c.depth])
         IN IF r.status # SJSON_OK THEN r
            ELSE IF r.c.depth = 0
                 THEN sjson_Flush([r EXCEPT !.c.finalized = TRUE])
                 ELSE Ret([r EXCEPT !.c.needs_comma[r.c.depth] = TRUE], SJSON_OK)

sjson_Close(w) ==
    IF w.c.finalized \/ w.c.depth = 0 THEN Ret(w, SJSON_ERROR_INVALID_STATE)
    ELSE LET w1 == [w EXCEPT !.c.depth = w.c.depth - 1]
             r == write_char(w1, w1.c.depth_stack[w1.c.depth])
         IN IF r.status # SJSON_OK
            THEN [r EXCEPT !.c.depth = (r.c.depth + 1) % Uint8Mod]
            ELSE IF r.c.depth = 0
                 THEN sjson_Flush([r EXCEPT !.c.finalized = TRUE])
                 ELSE Ret([r EXCEPT !.c.needs_comma[r.c.depth] = TRUE], SJSON_OK)

(* A faulty end: only the innermost collection is closed.                  *)
end_loop_single(w) ==
    IF w.c.depth > 0 THEN sjson_Close(w) ELSE Ret(w, SJSON_OK)

RECURSIVE end_loop(_)
end_loop(w) ==
    IF w.c.depth > 0
    THEN LET r == sjson_Close(w)
         IN IF r.status # SJSON_OK THEN r ELSE end_loop(r)
    ELSE Ret(w, SJSON_OK)

sjson_End(w) ==
    IF w.c.finalized THEN sjson_Flush(w) ELSE end_loop(w)

-----------------------------------------------------------------------------
(* Public API: add to object *)

Q == <<"\"">>

(* The shared shape of the scalar object adds: state check, separator,      *)
(* snprintf into a local buffer of the given size, write_str.               *)
AddFormatted(check, text, size) ==
    LET s == check
    IN IF s.status # SJSON_OK THEN s
       ELSE LET r == add_comma_if_needed(s)
            IN IF r.status # SJSON_OK THEN r
               ELSE IF Truncated(text, size) THEN Ret(r, SJSON_ERROR_BUFFER_FULL)
                    ELSE write_str(r, text)

sjson_AddStringToObject(w, key, value) ==
    IF key = NULLP \/ value = NULLP THEN Ret(w, SJSON_ERROR_INVALID_PARAM)
    ELSE AddFormatted(check_object_state(w),
                      Q \o key \o Q \o <<":">> \o Q \o value \o Q, StringBufSize)

sjson_AddIntToObject(w, key, value) ==
    IF key = NULLP THEN Ret(w, SJSON_ERROR_INVALID_PARAM)
    ELSE AddFormatted(check_object_state(w),
                      Q \o key \o Q \o <<":">> \o FormatLong(value), IntBufSize)

sjson_AddFloatToObject(w, key, value) ==
    IF key = NULLP THEN Ret(w, SJSON_ERROR_INVALID_PARAM)
    ELSE AddFormatted(check_object_state(w),
                      Q \o key \o Q \o <<":">> \o FormatFloat6(value), FloatBufSize)

sjson_AddNumberToObject(w, key, value) == sjson_AddFloatToObject(w, key, FloatCast(value))

(* The element loop of the convenience arrays: i counts from 1 here.        *)
RECURSIVE array_elements(_, _, _, _)
array_elements(w, texts, i, size) ==
    IF i > Len(texts) THEN write_char(w, "]")
    ELSE LET text == (IF i > 1 THEN <<",">> ELSE <<>>) \o texts[i]
         IN IF Truncated(text, size) THEN Ret(w, SJSON_ERROR_BUFFER_FULL)
            ELSE LET r == write_str(w, text)
                 IN IF r.status # SJSON_OK THEN r
                    ELSE array_elements(r, texts, i + 1, size)

sjson_AddIntArrayToObject(w, key, values) ==
    IF key = NULLP \/ IsNullValues(values) THEN Ret(w, SJSON_ERROR_INVALID_PARAM)
    ELSE LET r == AddFormatted(check_object_state(w),
                               Q \o key \o Q \o <<":", "[">>, IntArrayKeyBufSize)
         IN IF r.status # SJSON_OK THEN r
            ELSE array_elements(r, [i \in 1..Len(values) |-> FormatLong(values[i])],
                                1, ArrayValueBufSize)

sjson_AddFloatArrayToObject(w, key, values) ==
    IF key = NULLP \/ IsNullValues(values) THEN Ret(w, SJSON_ERROR_INVALID_PARAM)
    ELSE LET r == AddFormatted(check_object_state(w),
                               Q \o key \o Q \o <<":", "[">>, FloatArrayKeyBufSize)
         IN IF r.status # SJSON_OK THEN r
            ELSE array_elements(r, [i \in 1..Len(values) |-> FormatFloat6(values[i])],
                                1, ArrayValueBufSize)

(* The shared shape of the two opens: state check, depth check, separator,  *)
(* snprintf, write_str, push.                                               *)
(* A faulty open: the depth limit is off by one.                           *)
OpenCollection_off_by_one(w, key, opener, closer, size) ==
    LET s == check_object_state(w)
    IN IF s.status # SJSON_OK THEN s
       ELSE IF s.c.depth > s.c.max_depth THEN Ret(s, SJSON_ERROR_MAX_DEPTH)
            ELSE LET r == add_comma_if_needed(s)
                     text == Q \o key \o Q \o <<":", opener>>
                 IN IF r.status # SJSON_OK THEN r
                    ELSE IF Truncated(text, size) THEN Ret(r, SJSON_ERROR_BUFFER_FULL)
                         ELSE LET t == write_str(r, text)
                              IN IF t.status # SJSON_OK THEN t
                                 ELSE Ret(Push(t, closer), SJSON_OK)

(* A faulty open: the depth limit is checked after the separator.          *)
OpenCollection_late_depth_check(w, key, opener, closer, size) ==
    LET s == check_object_state(w)
    IN IF s.status # SJSON_OK THEN s
       ELSE LET r == add_comma_if_needed(s)
                text == Q \o key \o Q \o <<":", opener>>
            IN IF r.status # SJSON_OK THEN r
               ELSE IF r.c.depth >= r.c.max_depth THEN Ret(r, SJSON_ERROR_MAX_DEPTH)
                    ELSE IF Truncated(text, size) THEN Ret(r, SJSON_ERROR_BUFFER_FULL)
                         ELSE LET t == write_str(r, text)
                              IN IF t.status # SJSON_OK THEN t
                                 ELSE Ret(Push(t, closer), SJSON_OK)

OpenCollection(w, key, opener, closer, size) ==
    LET s == check_object_state(w)
    IN IF s.status # SJSON_OK THEN s
       ELSE IF s.c.depth >= s.c.max_depth THEN Ret(s, SJSON_ERROR_MAX_DEPTH)
            ELSE LET r == add_comma_if_needed(s)
                     text == Q \o key \o Q \o <<":", opener>>
                 IN IF r.status # SJSON_OK THEN r
                    ELSE IF Truncated(text, size) THEN Ret(r, SJSON_ERROR_BUFFER_FULL)
                         ELSE LET t == write_str(r, text)
                              IN IF t.status # SJSON_OK THEN t
                                 ELSE Ret(Push(t, closer), SJSON_OK)

sjson_AddArrayToObject(w, key) ==
    IF key = NULLP \/ Len(key) = 0 \/ Len(key) > ArrayKeyMax
    THEN Ret(w, SJSON_ERROR_INVALID_PARAM)
    ELSE OpenCollection(w, key, "[", "]", ArrayKeyMax + 5)

sjson_AddObjectToObject(w, key) ==
    IF key = NULLP THEN Ret(w, SJSON_ERROR_INVALID_PARAM)
    ELSE OpenCollection(w, key, "{", "}", ObjectKeyBufSize)

sjson_AddRawToObject(w, key, value) ==
    IF key = NULLP \/ value = NULLP THEN Ret(w, SJSON_ERROR_INVALID_PARAM)
    ELSE LET s == check_object_state(w)
         IN IF s.status # SJSON_OK THEN s
            ELSE LET r1 == add_comma_if_needed(s)
                 IN IF r1.status # SJSON_OK THEN r1
                    ELSE LET r2 == write_char(r1, "\"")
                         IN IF r2.status # SJSON_OK THEN r2
                            ELSE LET r3 == write_str(r2, key)
                                 IN IF r3.status # SJSON_OK THEN r3
                                    ELSE LET r4 == write_str(r3, <<"\"", ":">>)
                                         IN IF r4.status # SJSON_OK THEN r4
                                            ELSE write_str(r4, value)

-----------------------------------------------------------------------------
(* Public API: add to array *)

sjson_AddIntToArray(w, value) ==
    AddFormatted(check_array_state(w), FormatLong(value), ElementBufSize)

sjson_AddFloatToArray(w, value) ==
    AddFormatted(check_array_state(w), FormatFloat6(value), ElementBufSize)

sjson_AddStringToArray(w, value) ==
    IF value = NULLP THEN Ret(w, SJSON_ERROR_INVALID_PARAM)
    ELSE LET s == check_array_state(w)
         IN IF s.status # SJSON_OK THEN s
            ELSE LET r1 == add_comma_if_needed(s)
                 IN IF r1.status # SJSON_OK THEN r1
                    ELSE LET r2 == write_char(r1, "\"")
                         IN IF r2.status # SJSON_OK THEN r2
                            ELSE LET r3 == write_str(r2, value)
                                 IN IF r3.status # SJSON_OK THEN r3
                                    ELSE write_char(r3, "\"")

-----------------------------------------------------------------------------
(* The key/value scanner (src/src/stream_json_parse.c).  A scan state p is *)
(* a json_parse_state_t; parse_buffer holds the parse_buffer_len valid     *)
(* bytes.  find_key_value_pair yields the state it leaves and the int it   *)
(* returns: 1 a pair was found, 0 not found, -1 error.                     *)

KeyBufSize == 64

PARSE_STATE_SEEKING_KEY == "SEEKING_KEY"
PARSE_STATE_IN_KEY == "IN_KEY"
PARSE_STATE_SEEKING_COLON == "SEEKING_COLON"
PARSE_STATE_SEEKING_VALUE == "SEEKING_VALUE"
PARSE_STATE_IN_VALUE == "IN_VALUE"

is_whitespace(c) == c \in {" ", "\t", "\n", "\r"}

reset_value_tracking_for_parse_state(p) ==
    [p EXCEPT !.state = PARSE_STATE_SEEKING_KEY, !.key_pos = 0,
              !.bracket_depth = 0, !.brace_depth = 0,
              !.value_start = 0, !.value_len = 0,
              !.in_quotes = FALSE, !.escape_next = FALSE]

reset_json_parse_state(p) ==
    [reset_value_tracking_for_parse_state(p) EXCEPT
        !.parse_buffer_len = 0, !.parse_buffer = <<>>,
        !.key_buffer = [i \in 0..(KeyBufSize - 1) |-> NUL]]

shift_buffer_by_len(p, shift_len) ==
    reset_value_tracking_for_parse_state(
        [p EXCEPT !.parse_buffer = SubSeq(@, shift_len + 1, p.parse_buffer_len),
                  !.parse_buffer_len = @ - shift_len])

check_remaining_buffer(p) ==
    IF \A i \in 1..p.parse_buffer_len : is_whitespace(p.parse_buffer[i]) THEN 1 ELSE 0

(* A faulty Found that moves on to the next key by itself.                 *)
Found_moving_on(p) ==
    [p |-> [p EXCEPT !.state = PARSE_STATE_SEEKING_KEY], ret |-> 1]

Found(p) == [p |-> p, ret |-> 1]
NotFound(p) == [p |-> p, ret |-> 0]
ScanError(p) == [p |-> p, ret |-> -1]

(* One byte of the scan loop in each phase.  The result is either the      *)
(* outcome of the call (done) or the state to go on with.                  *)
Go(p) == [done |-> FALSE, p |-> p, ret |-> 0]
Stop(r) == [done |-> TRUE, p |-> r.p, ret |-> r.ret]

(* A faulty seeking_key that skips what cannot start a key.                *)
seeking_key_skipping(p, c, i) ==
    IF c = "\"" THEN Go([p EXCEPT !.state = PARSE_STATE_IN_KEY])
    ELSE IF c = "}"
         THEN LET q == shift_buffer_by_len(p, i + 1)
              IN IF check_remaining_buffer(q) = 0 THEN Stop(ScanError(q))
                 ELSE Stop(NotFound(q))
         ELSE Go(p)

seeking_key(p, c, i) ==
    IF c = "\"" THEN Go([p EXCEPT !.state = PARSE_STATE_IN_KEY])
    ELSE IF c = "}"
         THEN LET q == shift_buffer_by_len(p, i + 1)
              IN IF check_remaining_buffer(q) = 0 THEN Stop(ScanError(q))
                 ELSE Stop(NotFound(q))
         ELSE IF ~is_whitespace(c) /\ c # "{"
              THEN Stop(ScanError(reset_json_parse_state(p)))
              ELSE Go(p)

(* A faulty in_key that counts the bytes it has no room for.               *)
in_key_counting(p, c, i) ==
    IF c = "\""
    THEN Go([p EXCEPT !.state = PARSE_STATE_SEEKING_COLON])
    ELSE IF p.key_pos < KeyBufSize - 1
         THEN Go([p EXCEPT !.key_buffer[p.key_pos] = c, !.key_pos = @ + 1])
         ELSE Go([p EXCEPT !.key_pos = @ + 1])

in_key(p, c, i) ==
    IF c = "\""
    THEN Go([p EXCEPT !.key_buffer[p.key_pos] = NUL,
                      !.state = PARSE_STATE_SEEKING_COLON])
    ELSE IF p.key_pos < KeyBufSize - 1
         THEN Go([p EXCEPT !.key_buffer[p.key_pos] = c, !.key_pos = @ + 1])
         ELSE Go(p)

(* A faulty seeking_colon that takes the colon for the start of the value. *)
seeking_colon_into_value(p, c, i) ==
    IF c = ":" THEN Go([p EXCEPT !.state = PARSE_STATE_IN_VALUE, !.value_start = i])
    ELSE IF ~is_whitespace(c) THEN Stop(ScanError(reset_json_parse_state(p)))
         ELSE Go(p)

seeking_colon(p, c, i) ==
    IF c = ":" THEN Go([p EXCEPT !.state = PARSE_STATE_SEEKING_VALUE])
    ELSE IF ~is_whitespace(c) THEN Stop(ScanError(reset_json_parse_state(p)))
         ELSE Go(p)

seeking_value(p, c, i) ==
    IF is_whitespace(c) THEN Go(p)
    ELSE Go([p EXCEPT !.state = PARSE_STATE_IN_VALUE,
                      !.value_start = i,
                      !.in_quotes = IF c = "\"" THEN TRUE ELSE @,
                      !.brace_depth = IF c = "{" THEN 1 ELSE @,
                      !.bracket_depth = IF c = "[" THEN 1 ELSE @])

(* A faulty in_value that counts the delimiter as a byte of the value.     *)
in_value_counting_delimiter(p, c, i) ==
    LET q == IF c = "\"" /\ ~p.escape_next
             THEN [p EXCEPT !.in_quotes = ~p.in_quotes] ELSE p
    IN IF q.in_quotes THEN Go(q)
       ELSE IF q.brace_depth = 0 /\ q.bracket_depth = 0 /\ c \in {",", "}"}
            THEN Stop(Found([q EXCEPT !.value_len = i - q.value_start + 1]))
            ELSE Go([q EXCEPT
                        !.brace_depth = IF c = "{" THEN @ + 1
                                        ELSE IF c = "}" THEN @ - 1 ELSE @,
                        !.bracket_depth = IF c = "[" THEN @ + 1
                                          ELSE IF c = "]" THEN @ - 1 ELSE @])

(* A faulty in_value that treats the bytes of a string like any others.    *)
in_value_quotes_ignored(p, c, i) ==
    LET q == IF c = "\"" /\ ~p.escape_next
             THEN [p EXCEPT !.in_quotes = ~p.in_quotes] ELSE p
    IN IF q.brace_depth = 0 /\ q.bracket_depth = 0 /\ c \in {",", "}"}
       THEN Stop(Found([q EXCEPT !.value_len = i - q.value_start]))
       ELSE Go([q EXCEPT
                   !.brace_depth = IF c = "{" THEN @ + 1
                                   ELSE IF c = "}" THEN @ - 1 ELSE @,
                   !.bracket_depth = IF c = "[" THEN @ + 1
                                     ELSE IF c = "]" THEN @ - 1 ELSE @])

in_value(p, c, i) ==
    LET q == IF c = "\"" /\ ~p.escape_next
             THEN [p EXCEPT !.in_quotes = ~p.in_quotes] ELSE p
    IN IF q.in_quotes THEN Go(q)
       ELSE IF q.brace_depth = 0 /\ q.bracket_depth = 0 /\ c \in {",", "}"}
            THEN Stop(Found([q EXCEPT !.value_len = i - q.value_start]))
            ELSE Go([q EXCEPT
                        !.brace_depth = IF c = "{" THEN @ + 1
                                        ELSE IF c = "}" THEN @ - 1 ELSE @,
                        !.bracket_depth = IF c = "[" THEN @ + 1
                                          ELSE IF c = "]" THEN @ - 1 ELSE @])

(* A faulty scan_byte that gives the backslash no meaning.                 *)
scan_byte_no_escape(p, c, i) ==
    CASE p.state = PARSE_STATE_SEEKING_KEY -> seeking_key(p, c, i)
      [] p.state = PARSE_STATE_IN_KEY -> in_key(p, c, i)
      [] p.state = PARSE_STATE_SEEKING_COLON -> seeking_colon(p, c, i)
      [] p.state = PARSE_STATE_SEEKING_VALUE -> seeking_value(p, c, i)
      [] p.state = PARSE_STATE_IN_VALUE -> in_value(p, c, i)

scan_byte(p, c, i) ==
    IF p.escape_next THEN Go([p EXCEPT !.escape_next = FALSE])
    ELSE IF c = "\\" /\ p.in_quotes THEN Go([p EXCEPT !.escape_next = TRUE])
    ELSE CASE p.state = PARSE_STATE_SEEKING_KEY -> seeking_key(p, c, i)
           [] p.state = PARSE_STATE_IN_KEY -> in_key(p, c, i)
           [] p.state = PARSE_STATE_SEEKING_COLON -> seeking_colon(p, c, i)
           [] p.state = PARSE_STATE_SEEKING_VALUE -> seeking_value(p, c, i)
           [] p.state = PARSE_STATE_IN_VALUE -> in_value(p, c, i)

RECURSIVE scan_loop(_, _, _, _)
scan_loop(p, data, len, i) ==
    IF i >= len THEN NotFound(p)
    ELSE LET r == scan_byte(p, data[i + 1], i)
         IN IF r.done THEN [p |-> r.p, ret |-> r.ret]
            ELSE scan_loop(r.p, data, len, i + 1)

(* A faulty find_key_value_pair that goes on from the phase it is in.      *)
find_key_value_pair_resuming(p) ==
    scan_loop(p, p.parse_buffer, p.parse_buffer_len, 0)

find_key_value_pair(p) ==
    IF p.state # PARSE_STATE_SEEKING_KEY THEN ScanError(p)
    ELSE scan_loop(p, p.parse_buffer, p.parse_buffer_len, 0)

(* A faulty shift_parse_buffer_by_key_value that leaves the delimiter.     *)
shift_parse_buffer_by_key_value_to_delimiter(p) ==
    IF p.parse_buffer_len = 0 \/ p.value_len <= 0 THEN p
    ELSE shift_buffer_by_len(p, p.value_start + p.value_len)

shift_parse_buffer_by_key_value(p) ==
    IF p.parse_buffer_len = 0 \/ p.value_len <= 0 THEN p
    ELSE shift_buffer_by_len(p, p.value_start + p.value_len + 1)

-----------------------------------------------------------------------------
(* The caller of the scanner: it appends the bytes of a document to the    *)
(* parse buffer in chunks of any size and calls find_key_value_pair,       *)
(* shift_parse_buffer_by_key_value and the two resets in any order.  The   *)
(* documents are given by their top-level pairs and rendered compactly.    *)

ScanCapacity == 80
MaxFound == 5

Doc1Pairs ==
    <<[key |-> <<"a">>, value |-> <<"1">>],
      [key |-> <<"b">>, value |-> <<"\"", "x", ",", "y", "\"">>],
      [key |-> <<"c">>, value |-> <<"{", "\"", "d", "\"", ":", "1", "}">>],
      [key |-> <<"e">>, value |-> <<"[", "1", ",", "2", "]">>]>>

Doc2Pairs ==
    <<[key |-> <<"k">>, value |-> <<"\"", "}", "{", "]", "[", ",", "\\", "\"", "\"">>],
      [key |-> <<"n">>, value |-> <<"[", "{", "\"", "q", "\"", ":", "\"", "]", "\"", "}", "]">>]>>

DocPairs == <<Doc1Pairs, Doc2Pairs>>

(* Further inputs, given by their bytes and by the top-level pairs they    *)
(* hold: a key with an escaped quote; whitespace and a stray byte where a  *)
(* key is expected; a '{' in front of the first and of a later key; a key  *)
(* longer than key_buffer.                                                 *)
LongScanKey == [i \in 1..(KeyBufSize + 1) |-> "k"]

OddDocs ==
    <<[bytes |-> <<"{", "\"", "a", "\\", "\"", "b", "\"", ":", "1", "}">>,
       pairs |-> <<[key |-> <<"a", "\\", "\"", "b">>, value |-> <<"1">>]>>],
      [bytes |-> <<"{", " ", "\"", "a", "\"", " ", ":", " ", "1", ",", "x", "}">>,
       pairs |-> <<[key |-> <<"a">>, value |-> <<"1">>]>>],
      [bytes |-> <<"{", "{", "\"", "a", "\"", ":", "1", ",",
                   "{", "\"", "b", "\"", ":", "2", "}">>,
       pairs |-> <<[key |-> <<"a">>, value |-> <<"1">>],
                   [key |-> <<"b">>, value |-> <<"2">>]>>],
      [bytes |-> <<"{">> \o Q \o LongScanKey \o Q \o <<":", "1", "}">>,
       pairs |-> <<[key |-> LongScanKey, value |-> <<"1">>]>>]>>

EscapedKeyDoc == Len(DocPairs) + 1
StrayByteDoc == Len(DocPairs) + 2
SecondBraceDoc == Len(DocPairs) + 3
LongKeyDoc == Len(DocPairs) + 4

AllDocs == 1..(Len(DocPairs) + Len(OddDocs))

PairsOf(d) ==
    IF d <= Len(DocPairs) THEN DocPairs[d] ELSE OddDocs[d - Len(DocPairs)].pairs

RECURSIVE RenderPairs(_, _)
RenderPairs(pairs, i) ==
    IF i > Len(pairs) THEN <<>>
    ELSE (IF i > 1 THEN <<",">> ELSE <<>>)
         \o Q \o pairs[i].key \o Q \o <<":">> \o pairs[i].value
         \o RenderPairs(pairs, i + 1)

Render(pairs) == <<"{">> \o RenderPairs(pairs, 1) \o <<"}">>

DocBytes(d) ==
    IF d <= Len(DocPairs) THEN Render(DocPairs[d])
    ELSE OddDocs[d - Len(DocPairs)].bytes

FreshScanState ==
    [state |-> PARSE_STATE_SEEKING_KEY,
     key_buffer |-> [i \in 0..(KeyBufSize - 1) |-> NUL], key_pos |-> 0,
     bracket_depth |-> 0, brace_depth |-> 0,
     in_quotes |-> FALSE, escape_next |-> FALSE,
     value_start |-> 0, value_len |-> 0,
     parse_buffer |-> <<>>, parse_buffer_len |-> 0,
     parse_buffer_capacity |-> ScanCapacity]

(* scan.p is the json_parse_state_t; doc and fed say which document is     *)
(* being received and how many of its bytes have been appended; found      *)
(* lists the pairs reported so far; ret is the last return value of        *)
(* find_key_value_pair; strict says that the caller has so far only        *)
(* appended, scanned, and consumed each found pair before scanning again.  *)
ScanStart(d) ==
    [p |-> FreshScanState, doc |-> d, fed |-> 0, found |-> <<>>,
     ret |-> 0, strict |-> TRUE]

(* A pair has been found and not yet consumed.                             *)
PairPending(p) == p.value_len > 0

RECURSIVE KeyChars(_, _)
KeyChars(key_buffer, i) ==
    IF i >= KeyBufSize \/ key_buffer[i] = NUL THEN <<>>
    ELSE <<key_buffer[i]>> \o KeyChars(key_buffer, i + 1)

FoundPair(p) ==
    [key |-> KeyChars(p.key_buffer, 0),
     value |-> SubSeq(p.parse_buffer, p.value_start + 1, p.value_start + p.value_len)]

WriterIdle == UNCHANGED <<ctx, sent, last, twin, twinSent, fails, opens, env>>

ScanAppend ==
    /\ \E n \in 1..(Len(DocBytes(scan.doc)) - scan.fed) :
           /\ scan.p.parse_buffer_len + n < scan.p.parse_buffer_capacity
           /\ scan' = [scan EXCEPT
                          !.p.parse_buffer = @ \o SubSeq(DocBytes(scan.doc), scan.fed + 1, scan.fed + n),
                          !.p.parse_buffer_len = @ + n,
                          !.fed = @ + n]
    /\ WriterIdle

ScanFind ==
    /\ Len(scan.found) < MaxFound
    /\ LET r == find_key_value_pair(scan.p)
       IN scan' = [scan EXCEPT
                      !.p = r.p,
                      !.ret = r.ret,
                      !.found = IF r.ret = 1 THEN Append(@, FoundPair(r.p)) ELSE @,
                      !.strict = @ /\ ~PairPending(scan.p)]
    /\ WriterIdle

ScanConsume ==
    /\ scan' = [scan EXCEPT
                   !.p = shift_parse_buffer_by_key_value(scan.p),
                   !.strict = @ /\ PairPending(scan.p)]
    /\ WriterIdle

ScanResetTracking ==
    /\ scan' = [scan EXCEPT !.p = reset_value_tracking_for_parse_state(scan.p),
                            !.strict = FALSE]
    /\ WriterIdle

(* A full reset starts the reception of the document over.                 *)
ScanReset ==
    /\ scan' = [scan EXCEPT !.p = reset_json_parse_state(scan.p),
                            !.fed = 0, !.found = <<>>, !.strict = TRUE]
    /\ WriterIdle

-----------------------------------------------------------------------------
(* The state machine: one action per API function.  env is the scenario:   *)
(* which buffer sizes the caller uses, how the sink behaves, whether the   *)
(* sink's bytes are kept, and whether a second context with a large        *)
(* buffer is driven by the same calls.                                     *)

NoFail == ReliableMaxDoc + SJSON_MAX_DEPTH + 2
BigCap == ReliableMaxDoc + SJSON_MAX_DEPTH + 1

(* A key too long for the 64-byte local buffer of the convenience arrays.  *)
LongKey == [i \in 1..(IntArrayKeyBufSize - 4) |-> "k"]
IntValues == {7}
FloatValues == {500000}
StrValues == {<<"x">>}
RawValues == {<<"{", "}">>}
IntArrays == UNION {[1..n -> IntValues] : n \in 0..MaxCount}
FloatArrays == UNION {[1..n -> FloatValues] : n \in 0..MaxCount}

(* All bytes the writer has emitted so far: delivered bytes, then buffer.  *)
Emitted(c, s) == s \o SubSeq(c.buffer, 1, c.used)

UninitContext ==
    [buffer |-> <<>>, buffer_size |-> 0, used |-> 0, depth |-> 0, max_depth |-> 0,
     finalized |-> FALSE, depth_stack |-> ZeroStack, needs_comma |-> ZeroFlags]

World(c, s, budget) == [c |-> c, sent |-> s, calls |-> <<>>, budget |-> budget, status |-> SJSON_OK]

Initialized == ctx.buffer_size > 0

WriterInit(e) ==
    /\ ctx = UninitContext
    /\ sent = <<>>
    /\ last = [op |-> "none", status |-> SJSON_OK]
    /\ twin = [c |-> UninitContext, status |-> SJSON_OK, other |-> SJSON_OK]
    /\ twinSent = <<>>
    /\ fails = 0
    /\ opens = 0
    /\ env = e

InitWith(e) == WriterInit(e) /\ scan = ScanStart(1)

(* Lossy sink, every buffer size, the delivered bytes kept.                *)
Init == InitWith([caps |-> 1..MaxCap, budgets |-> (0..MaxBudget) \cup {NoFail},
                  keys |-> {<<"a">>}, long_keys |-> {LongKey},
                  record |-> TRUE, max_doc |-> MaxDoc, max_opens |-> 0, twin |-> FALSE])

(* Reliable sink; a second context with a buffer larger than the document. *)
InitReliable == InitWith([caps |-> 1..MaxCap, budgets |-> {NoFail},
                          keys |-> {<<"a">>}, long_keys |-> {LongKey},
                          record |-> TRUE, max_doc |-> ReliableMaxDoc, max_opens |-> 0,
                          twin |-> TRUE])

(* Reliable sink whose bytes are not kept: documents of any length and     *)
(* depth.                                                                  *)
InitDeep == InitWith([caps |-> {DeepCap}, budgets |-> {NoFail},
                      keys |-> {<<"a">>, <<>>}, long_keys |-> {},
                      record |-> FALSE, max_doc |-> 0,
                      max_opens |-> SJSON_MAX_DEPTH + DeepExtraOpens, twin |-> FALSE])

(* The sink invocations of an operation that returned false.               *)
Rejected(calls) == Cardinality({i \in 1..Len(calls) : ~calls[i].ok})

(* Commit the outcome r of operation op (and rt, the same call on the      *)
(* second context, with the status of both calls).  A call that neither changed the context nor reached   *)
(* the sink leaves the state as it is: last is the last call that had an   *)
(* effect.  fails counts the rejected sink invocations, opens the          *)
(* collections opened in the current document (when the scenario bounds    *)
(* them).                                                                  *)
Commit(op, r, rt) ==
    LET effect == r.c # ctx \/ r.calls # <<>>
        pushed == IF env.max_opens = 0 THEN 0
                  ELSE IF r.c.depth > ctx.depth THEN opens + 1
                  ELSE IF op \in {"InitObject", "InitArray"} /\ effect THEN r.c.depth
                  ELSE opens
    IN /\ env.record => Len(Emitted(r.c, r.sent)) <= env.max_doc + r.c.depth
       /\ fails + Rejected(r.calls) <= MaxFails
       /\ pushed <= env.max_opens
       /\ fails' = fails + Rejected(r.calls)
       /\ opens' = pushed
       /\ ctx' = r.c
       /\ sent' = IF env.record THEN r.sent ELSE <<>>
       /\ last' = IF effect THEN [op |-> op, status |-> r.status] ELSE last
       /\ twin' = IF env.twin THEN [c |-> rt.c, status |-> rt.status, other |-> r.status]
                ELSE twin
       /\ twinSent' = IF env.twin THEN rt.sent ELSE twinSent
       /\ UNCHANGED <<env, scan>>

Do(op, F(_)) ==
    /\ Initialized
    /\ \E b \in env.budgets :
           Commit(op, F(World(ctx, sent, b)), F(World(twin.c, twinSent, NoFail)))

(* The arguments of Begin: every buffer size of the scenario, and one call *)
(* for each way an argument can be missing.                                *)
InitParams ==
    {[has_buffer |-> TRUE, size |-> n, has_callback |-> TRUE] : n \in env.caps}
    \cup {[has_buffer |-> FALSE, size |-> 1, has_callback |-> TRUE],
          [has_buffer |-> TRUE, size |-> 0, has_callback |-> TRUE],
          [has_buffer |-> TRUE, size |-> 1, has_callback |-> FALSE]}

(* Begin starts a new document: the record of the sink starts empty.       *)
InitObject ==
    \E p \in InitParams, b \in env.budgets :
        IF ~p.has_buffer \/ p.size = 0 \/ ~p.has_callback
        THEN Commit("InitObject",
                    sjson_InitObject(World(ctx, sent, b), p.has_buffer, p.size, p.has_callback),
                    sjson_InitObject(World(twin.c, twinSent, NoFail), p.has_buffer, p.size, p.has_callback))
        ELSE Commit("InitObject",
                    sjson_InitObject(World(ctx, <<>>, b), TRUE, p.size, TRUE),
                    sjson_InitObject(World(twin.c, <<>>, NoFail), TRUE, BigCap, TRUE))

InitArray ==
    \E p \in InitParams, b \in env.budgets :
        IF ~p.has_buffer \/ p.size = 0 \/ ~p.has_callback
        THEN Commit("InitArray",
                    sjson_InitArray(World(ctx, sent, b), p.has_buffer, p.size, p.has_callback),
                    sjson_InitArray(World(twin.c, twinSent, NoFail), p.has_buffer, p.size, p.has_callback))
        ELSE Commit("InitArray",
                    sjson_InitArray(World(ctx, <<>>, b), TRUE, p.size, TRUE),
                    sjson_InitArray(World(twin.c, <<>>, NoFail), TRUE, BigCap, TRUE))

Close == Do("Close", LAMBDA w : sjson_Close(w))

End == Do("End", LAMBDA w : sjson_End(w))

Flush == Do("Flush", LAMBDA w : sjson_Flush(w))

AddStringToObject ==
    \E k \in env.keys, v \in StrValues :
        Do("AddStringToObject", LAMBDA w : sjson_AddStringToObject(w, k, v))

AddIntToObject ==
    \E k \in env.keys, v \in IntValues :
        Do("AddIntToObject", LAMBDA w : sjson_AddIntToObject(w, k, v))

AddFloatToObject ==
    \E k \in env.keys, v \in FloatValues :
        Do("AddFloatToObject", LAMBDA w : sjson_AddFloatToObject(w, k, v))

AddNumberToObject ==
    \E k \in env.keys, v \in FloatValues :
        Do("AddNumberToObject", LAMBDA w : sjson_AddNumberToObject(w, k, v))

AddIntArrayToObject ==
    \E k \in env.keys \cup env.long_keys, v \in IntArrays :
        Do("AddIntArrayToObject", LAMBDA w : sjson_AddIntArrayToObject(w, k, v))

AddFloatArrayToObject ==
    \E k \in env.keys \cup env.long_keys, v \in FloatArrays :
        Do("AddFloatArrayToObject", LAMBDA w : sjson_AddFloatArrayToObject(w, k, v))

AddArrayToObject ==
    \E k \in env.keys : Do("AddArrayToObject", LAMBDA w : sjson_AddArrayToObject(w, k))

AddObjectToObject ==
    \E k \in env.keys : Do("AddObjectToObject", LAMBDA w : sjson_AddObjectToObject(w, k))

AddRawToObject ==
    \E k \in env.keys, v \in RawValues :
        Do("AddRawToObject", LAMBDA w : sjson_AddRawToObject(w, k, v))

AddIntToArray ==
    \E v \in IntValues : Do("AddIntToArray", LAMBDA w : sjson_AddIntToArray(w, v))

AddFloatToArray ==
    \E v \in FloatValues : Do("AddFloatToArray", LAMBDA w : sjson_AddFloatToArray(w, v))

AddStringToArray ==
    \E v \in StrValues : Do("AddStringToArray", LAMBDA w : sjson_AddStringToArray(w, v))

Next ==
    \/ InitObject \/ InitArray \/ Close \/ End \/ Flush
    \/ AddStringToObject \/ AddIntToObject \/ AddFloatToObject \/ AddNumberToObject
    \/ AddIntArrayToObject \/ AddFloatArrayToObject
    \/ AddArrayToObject \/ AddObjectToObject \/ AddRawToObject
    \/ AddIntToArray \/ AddFloatToArray \/ AddStringToArray

Spec == Init /\ [][Next]_vars

SpecReliable == InitReliable /\ [][Next]_vars

SpecDeep == InitDeep /\ [][Next]_vars

(* Lossy sink whose bytes are not kept, a few collections per document:    *)
(* no bound of the scenario stands in the way of sjson_End.                *)
InitEnd == InitWith([caps |-> 1..MaxCap, budgets |-> {0, NoFail},
                     keys |-> {<<"a">>}, long_keys |-> {},
                     record |-> FALSE, max_doc |-> 0,
                     max_opens |-> EndMaxOpens, twin |-> FALSE])

(* The caller that goes on calling sjson_End: while a collection is open   *)
(* on a context that is not finalized, a call of sjson_End that returns    *)
(* SJSON_OK is made in the end.  The step is the one End takes; it is      *)
(* named by what it records, which keeps its enabling condition a plain    *)
(* test of the context.                                                    *)
EndReliable ==
    /\ Initialized /\ ~ctx.finalized /\ ctx.depth >= 1
    /\ last' = [op |-> "End", status |-> SJSON_OK]

SpecEnd == InitEnd /\ [][Next]_vars /\ WF_last(EndReliable)

(* The scanner and its caller, one of the documents being received.        *)
InitScan ==
    /\ WriterInit([caps |-> {1}, budgets |-> {NoFail}, keys |-> {<<"a">>}, long_keys |-> {},
                   record |-> TRUE, max_doc |-> 0, max_opens |-> 0, twin |-> FALSE])
    /\ \E d \in AllDocs : scan = ScanStart(d)

NextScan == ScanAppend \/ ScanFind \/ ScanConsume \/ ScanResetTracking \/ ScanReset

SpecScan == InitScan /\ [][NextScan]_vars

-----------------------------------------------------------------------------
(* The grammar the emitted documents are checked against: compact JSON     *)
(* made of objects, arrays, strings without escapes and decimal numbers.   *)
(* Each parser returns the index after what it parsed, or 0.               *)

Digits == {"0", "1", "2", "3", "4", "5", "6", "7", "8", "9"}

At(s, i) == IF i >= 1 /\ i <= Len(s) THEN s[i] ELSE NUL

RECURSIVE SkipDigits(_, _)
SkipDigits(s, i) == IF At(s, i) \in Digits THEN SkipDigits(s, i + 1) ELSE i

RECURSIVE FindQuote(_, _)
FindQuote(s, i) == IF i > Len(s) THEN 0
                   ELSE IF s[i] = "\"" THEN i ELSE FindQuote(s, i + 1)

ParseString(s, i) ==
    IF At(s, i) # "\"" THEN 0
    ELSE LET j == FindQuote(s, i + 1) IN IF j = 0 THEN 0 ELSE j + 1

ParseNumber(s, i) ==
    LET a == IF At(s, i) = "-" THEN i + 1 ELSE i
        b == IF At(s, a) = "0" THEN a + 1 ELSE SkipDigits(s, a)
    IN IF b = a THEN 0
       ELSE IF At(s, b) # "." THEN b
            ELSE LET f == SkipDigits(s, b + 1) IN IF f = b + 1 THEN 0 ELSE f

RECURSIVE ParseValue(_, _)
RECURSIVE ParseMembers(_, _)
RECURSIVE ParseElements(_, _)

ParseMembers(s, i) ==
    LET k == ParseString(s, i)
        v == IF k = 0 \/ At(s, k) # ":" THEN 0 ELSE ParseValue(s, k + 1)
    IN IF v = 0 THEN 0
       ELSE IF At(s, v) = "," THEN ParseMembers(s, v + 1)
            ELSE IF At(s, v) = "}" THEN v + 1 ELSE 0

ParseElements(s, i) ==
    LET v == ParseValue(s, i)
    IN IF v = 0 THEN 0
       ELSE IF At(s, v) = "," THEN ParseElements(s, v + 1)
            ELSE IF At(s, v) = "]" THEN v + 1 ELSE 0

ParseValue(s, i) ==
    CASE At(s, i) = "{" -> IF At(s, i + 1) = "}" THEN i + 2 ELSE ParseMembers(s, i + 1)
      [] At(s, i) = "[" -> IF At(s, i + 1) = "]" THEN i + 2 ELSE ParseElements(s, i + 1)
      [] At(s, i) = "\"" -> ParseString(s, i)
      [] At(s, i) \in Digits \cup {"-"} -> ParseNumber(s, i)
      [] OTHER -> 0

(* A single root collection and nothing after it.                          *)
ValidJson(s) == At(s, 1) \in {"{", "["} /\ ParseValue(s, 1) = Len(s) + 1

-----------------------------------------------------------------------------
(* Inputs the properties quantify over *)

AllKeys == {<<"a">>, <<>>, LongKey}
AllBudgets == (0..MaxBudget) \cup {NoFail}
Live == Initialized /\ ~ctx.finalized
W(b) == World(ctx, sent, b)
TopIsObject(c) == c.depth > 0 /\ c.depth_stack[c.depth - 1] = "}"

-----------------------------------------------------------------------------
(* C1: with a sink that always succeeds, a context with a small buffer and *)
(* a context with a buffer larger than the whole document, driven by the   *)
(* same calls, have emitted the same bytes (delivered, then buffered) and  *)
(* returned the same status after every call; with both buffers empty (as  *)
(* after Flush or End) the sink has received the same bytes.               *)
C1_BufferSizeIndependence ==
    Initialized =>
        /\ Emitted(ctx, sent) = Emitted(twin.c, twinSent)
        /\ twin.status = twin.other
        /\ (ctx.used = 0 /\ twin.c.used = 0) => sent = twinSent
        /\ ctx.finalized = twin.c.finalized

C1_Witness ==
    /\ ctx.finalized /\ twin.c.finalized
    /\ ctx.buffer_size = 1
    /\ Len(sent) >= ReliableMaxDoc
    /\ last.op = "End" /\ last.status = SJSON_OK

-----------------------------------------------------------------------------
(* C2: with a sink that always succeeds, the bytes delivered by a call     *)
(* sequence that ended with a successful End form one well-formed JSON     *)
(* document.  The code does not have this property.                        *)
C2_WellFormedOutput ==
    (Initialized /\ ctx.finalized /\ ctx.used = 0) => ValidJson(sent)

-----------------------------------------------------------------------------
(* C3: in the emitted stream every separator follows a complete member or  *)
(* element and precedes the next one: none after an opening token, none    *)
(* doubled, and none missing between two members.  (Keys and string values *)
(* of the scenarios are non-empty, so two adjacent quotes are a closing    *)
(* and an opening quote.)  The code does not have this property.           *)
ValueStart == {"\"", "{", "[", "-"} \cup Digits
ValueEnd == {"\"", "}", "]"} \cup Digits

SpuriousSeparator(s) ==
    \E i \in 1..Len(s) : s[i] = "," /\ At(s, i - 1) \notin ValueEnd

MissingSeparator(s) ==
    \E i \in 2..Len(s) :
        /\ s[i] \in ValueStart /\ s[i - 1] \in ValueEnd
        /\ ~(s[i] \in Digits /\ s[i - 1] \in Digits)

C3_CommaDiscipline ==
    Initialized =>
        /\ ~SpuriousSeparator(Emitted(ctx, sent))
        /\ ~MissingSeparator(Emitted(ctx, sent))

-----------------------------------------------------------------------------
(* C4: no more than SJSON_MAX_DEPTH collections are ever open.  In an open *)
(* object, with a valid key and a sink that succeeds, an open succeeds and *)
(* adds one level while fewer than SJSON_MAX_DEPTH collections are open;   *)
(* with exactly SJSON_MAX_DEPTH open it returns SJSON_ERROR_MAX_DEPTH,     *)
(* changes no field, emits nothing, and a scalar added to the same object  *)
(* right after it succeeds.                                                *)
OpenRefusedAtMaxDepth(r) ==
    /\ r.status = SJSON_ERROR_MAX_DEPTH
    /\ r.c = ctx /\ r.calls = <<>> /\ r.sent = sent
    /\ sjson_AddIntToObject(r, <<"a">>, 7).status = SJSON_OK

OpenAccepted(r) ==
    /\ r.status = SJSON_OK
    /\ r.c.depth = ctx.depth + 1

C4_MaxDepth ==
    /\ Initialized => ctx.depth <= SJSON_MAX_DEPTH
    /\ (Live /\ TopIsObject(ctx)) =>
           \A r \in {sjson_AddObjectToObject(W(NoFail), <<"a">>),
                     sjson_AddObjectToObject(W(NoFail), <<>>),
                     sjson_AddArrayToObject(W(NoFail), <<"a">>)} :
               IF ctx.depth = SJSON_MAX_DEPTH THEN OpenRefusedAtMaxDepth(r)
               ELSE OpenAccepted(r)

C4_Witness ==
    /\ Live /\ TopIsObject(ctx)
    /\ ctx.depth = SJSON_MAX_DEPTH
    /\ last.op = "AddIntToObject" /\ last.status = SJSON_OK

-----------------------------------------------------------------------------
(* C5: a finalized context has no open collection and an empty buffer,     *)
(* also after a sink failure.  The code does not have this property.       *)
C5_FinalizedIsClosedAndFlushed ==
    (Initialized /\ ctx.finalized) => (ctx.depth = 0 /\ ctx.used = 0)

-----------------------------------------------------------------------------
(* C6: sjson_Flush with bytes buffered invokes the sink once with exactly  *)
(* those bytes.  If the sink refuses them, sjson_Flush returns             *)
(* SJSON_ERROR_BUFFER_FULL and changes nothing, and a second sjson_Flush   *)
(* with a sink that accepts delivers exactly those bytes and leaves        *)
(* used = 0.  With nothing buffered it returns SJSON_OK without invoking   *)
(* the sink.                                                               *)
Buffered == SubSeq(ctx.buffer, 1, ctx.used)

FlushRetried(r) ==
    LET again == sjson_Flush(World(r.c, r.sent, NoFail))
    IN /\ again.status = SJSON_OK
       /\ again.calls = <<[data |-> Buffered, ok |-> TRUE]>>
       /\ again.sent = sent \o Buffered
       /\ again.c.used = 0

C6_FlushSinkFailure ==
    Initialized =>
        \A b \in AllBudgets :
            LET r == sjson_Flush(W(b))
            IN IF ctx.used = 0
               THEN r.status = SJSON_OK /\ r.calls = <<>> /\ r.c = ctx /\ r.sent = sent
               ELSE /\ Len(r.calls) = 1
                    /\ r.calls[1].data = Buffered
                    /\ r.calls[1].ok =>
                           /\ r.status = SJSON_OK
                           /\ r.c.used = 0
                           /\ r.sent = sent \o Buffered
                    /\ ~r.calls[1].ok =>
                           /\ r.status = SJSON_ERROR_BUFFER_FULL
                           /\ r.c = ctx /\ r.sent = sent
                           /\ FlushRetried(r)

C6_Witness ==
    /\ last.op = "Flush" /\ last.status = SJSON_ERROR_BUFFER_FULL
    /\ ctx.used > 0

-----------------------------------------------------------------------------
(* C7: when sjson_Close fails because the sink refused the flush made      *)
(* while writing the closer (a flush of a full buffer), depth and          *)
(* depth_stack are what they were before the call, finalized is false, and *)
(* a later sjson_Close with a sink that accepts closes that collection.    *)
RejectedWhileWriting(r) ==
    /\ r.status # SJSON_OK
    /\ r.calls # <<>>
    /\ ~r.calls[Len(r.calls)].ok
    /\ Len(r.calls[Len(r.calls)].data) = ctx.buffer_size

CloseRetried(r) ==
    LET again == sjson_Close(World(r.c, r.sent, NoFail))
    IN /\ again.status = SJSON_OK
       /\ again.c.depth = ctx.depth - 1
       /\ again.c.finalized = (ctx.depth = 1)
       /\ Emitted(again.c, again.sent)[Len(Emitted(again.c, again.sent))]
              = ctx.depth_stack[ctx.depth - 1]

C7_CloseRollback ==
    (Live /\ ctx.depth >= 1) =>
        \A b \in AllBudgets :
            LET r == sjson_Close(W(b))
            IN RejectedWhileWriting(r) =>
                   /\ r.status = SJSON_ERROR_BUFFER_FULL
                   /\ r.c.depth = ctx.depth
                   /\ r.c.depth_stack = ctx.depth_stack
                   /\ ~r.c.finalized
                   /\ CloseRetried(r)

C7_Witness ==
    /\ last.op = "Close" /\ last.status = SJSON_ERROR_BUFFER_FULL
    /\ ~ctx.finalized /\ ctx.depth >= 2
    /\ ctx.used = ctx.buffer_size

-----------------------------------------------------------------------------
(* C8: from a non-finalized state with d >= 1 open collections, sjson_End  *)
(* with a sink that accepts emits the d pending closers innermost first    *)
(* after everything emitted so far, flushes, and returns SJSON_OK with     *)
(* finalized, depth = 0 and used = 0.  With a sink that refuses, sjson_End *)
(* returns the error of the failing sjson_Close and makes no further sink  *)
(* call; what it has emitted by then is a prefix of the pending closers.   *)
Closers(c) == [i \in 1..c.depth |-> c.depth_stack[c.depth - i]]

EndCompleted(r) ==
    /\ r.status = SJSON_OK
    /\ r.c.finalized /\ r.c.depth = 0 /\ r.c.used = 0
    /\ r.sent = Emitted(ctx, sent) \o Closers(ctx)

EndStopped(r) ==
    /\ r.status = SJSON_ERROR_BUFFER_FULL
    /\ ~r.calls[Len(r.calls)].ok
    /\ \A i \in 1..(Len(r.calls) - 1) : r.calls[i].ok
    /\ \E k \in 0..ctx.depth :
           /\ Emitted(r.c, r.sent) = Emitted(ctx, sent) \o SubSeq(Closers(ctx), 1, k)
           /\ r.c.depth \in {ctx.depth - k, ctx.depth - k + 1}

C8_EndClosesEverything ==
    (Live /\ ctx.depth >= 1) =>
        /\ EndCompleted(sjson_End(W(NoFail)))
        /\ \A b \in 0..MaxBudget :
               LET r == sjson_End(W(b))
               IN IF r.calls # <<>> /\ ~r.calls[Len(r.calls)].ok
                  THEN EndStopped(r) ELSE EndCompleted(r)

C8_Witness ==
    /\ last.op = "End" /\ last.status = SJSON_OK
    /\ ctx.finalized /\ ctx.used = 0
    /\ Len(sent) >= 2
    /\ sent[Len(sent) - 1] = "]" /\ sent[Len(sent)] = "}"

-----------------------------------------------------------------------------
(* C9: whenever sjson_End returns SJSON_OK, a second sjson_End returns     *)
(* SJSON_OK, does not invoke the sink and changes no field of the context, *)
(* whatever the sink would answer.                                         *)
EndRepeated(r) ==
    \A b \in AllBudgets :
        LET again == sjson_End(World(r.c, r.sent, b))
        IN /\ again.status = SJSON_OK
           /\ again.calls = <<>>
           /\ again.c = r.c
           /\ again.sent = r.sent

C9_EndIdempotent ==
    Initialized =>
        \A b \in AllBudgets :
            LET r == sjson_End(W(b))
            IN r.status = SJSON_OK => EndRepeated(r)

C9_Witness ==
    /\ last.op = "End" /\ last.status = SJSON_OK
    /\ ctx.finalized /\ ctx.depth = 0 /\ ctx.used = 0
    /\ Len(sent) >= MaxDoc

-----------------------------------------------------------------------------
(* C10: on a finalized context every add and open called with valid        *)
(* arguments, and sjson_Close, return SJSON_ERROR_INVALID_STATE without    *)
(* invoking the sink or changing the context; sjson_Close does the same    *)
(* whenever depth is 0; sjson_InitObject and sjson_InitArray make the      *)
(* context usable again.  (sjson_AddArrayToObject validates its key before *)
(* the state, so it is called with a non-empty key here.)                  *)
Refused(r) ==
    /\ r.status = SJSON_ERROR_INVALID_STATE
    /\ r.c = ctx /\ r.calls = <<>> /\ r.sent = sent

WritesAndClose(w) ==
    {sjson_Close(w), sjson_AddArrayToObject(w, <<"a">>)}
    \cup {sjson_AddObjectToObject(w, k) : k \in AllKeys}
    \cup {sjson_AddStringToObject(w, k, v) : k \in AllKeys, v \in StrValues}
    \cup {sjson_AddIntToObject(w, k, v) : k \in AllKeys, v \in IntValues}
    \cup {sjson_AddFloatToObject(w, k, v) : k \in AllKeys, v \in FloatValues}
    \cup {sjson_AddNumberToObject(w, k, v) : k \in AllKeys, v \in FloatValues}
    \cup {sjson_AddRawToObject(w, k, v) : k \in AllKeys, v \in RawValues}
    \cup {sjson_AddIntArrayToObject(w, k, v) : k \in AllKeys, v \in IntArrays}
    \cup {sjson_AddFloatArrayToObject(w, k, v) : k \in AllKeys, v \in FloatArrays}
    \cup {sjson_AddIntToArray(w, v) : v \in IntValues}
    \cup {sjson_AddFloatToArray(w, v) : v \in FloatValues}
    \cup {sjson_AddStringToArray(w, v) : v \in StrValues}

Reinitialized(r) ==
    /\ r.status = SJSON_OK
    /\ ~r.c.finalized /\ r.c.depth = 1

C10_NoWritesAfterFinalize ==
    Initialized =>
        \A b \in AllBudgets :
            /\ ctx.finalized => \A r \in WritesAndClose(W(b)) : Refused(r)
            /\ ctx.depth = 0 => Refused(sjson_Close(W(b)))
            /\ ctx.finalized =>
                   LET o == sjson_InitObject(World(ctx, <<>>, NoFail), TRUE, ctx.buffer_size, TRUE)
                       a == sjson_InitArray(World(ctx, <<>>, NoFail), TRUE, ctx.buffer_size, TRUE)
                   IN /\ Reinitialized(o) /\ Reinitialized(a)
                      /\ sjson_AddIntToObject(o, <<"a">>, 7).status = SJSON_OK
                      /\ sjson_AddIntToArray(a, 7).status = SJSON_OK

C10_Witness ==
    /\ ctx.finalized
    /\ last.op = "Close" /\ last.status = SJSON_OK
    /\ Len(sent) >= 2

-----------------------------------------------------------------------------
(* C11: an object-member add or open called (with valid arguments) while   *)
(* the top collection is an array, and an array-element add called while   *)
(* the top collection is an object, return SJSON_ERROR_INVALID_STATE       *)
(* without invoking the sink or changing the context; an add that writes   *)
(* anything was called on the kind of collection on top of the stack.      *)
TopIsArray(c) == c.depth > 0 /\ c.depth_stack[c.depth - 1] = "]"

ObjectWrites(w) ==
    {sjson_AddArrayToObject(w, <<"a">>)}
    \cup {sjson_AddObjectToObject(w, k) : k \in AllKeys}
    \cup {sjson_AddStringToObject(w, k, v) : k \in AllKeys, v \in StrValues}
    \cup {sjson_AddIntToObject(w, k, v) : k \in AllKeys, v \in IntValues}
    \cup {sjson_AddFloatToObject(w, k, v) : k \in AllKeys, v \in FloatValues}
    \cup {sjson_AddNumberToObject(w, k, v) : k \in AllKeys, v \in FloatValues}
    \cup {sjson_AddRawToObject(w, k, v) : k \in AllKeys, v \in RawValues}
    \cup {sjson_AddIntArrayToObject(w, k, v) : k \in AllKeys, v \in IntArrays}
    \cup {sjson_AddFloatArrayToObject(w, k, v) : k \in AllKeys, v \in FloatArrays}

ArrayWrites(w) ==
    {sjson_AddIntToArray(w, v) : v \in IntValues}
    \cup {sjson_AddFloatToArray(w, v) : v \in FloatValues}
    \cup {sjson_AddStringToArray(w, v) : v \in StrValues}

Wrote(r) == r.c # ctx \/ r.calls # <<>> \/ r.sent # sent

C11_TargetMismatch ==
    Live =>
        \A b \in AllBudgets :
            /\ TopIsArray(ctx) => \A r \in ObjectWrites(W(b)) : Refused(r)
            /\ TopIsObject(ctx) => \A r \in ArrayWrites(W(b)) : Refused(r)
            /\ \A r \in ObjectWrites(W(b)) : Wrote(r) => TopIsObject(ctx)
            /\ \A r \in ArrayWrites(W(b)) : Wrote(r) => TopIsArray(ctx)

C11_Witness ==
    /\ Live /\ ctx.depth = 2
    /\ ctx.depth_stack[0] = "}" /\ ctx.depth_stack[1] = "]"
    /\ ctx.needs_comma[2]
    /\ last.op = "AddIntToArray" /\ last.status = SJSON_OK

-----------------------------------------------------------------------------
(* C12: in every reachable state, and after one more call of any operation *)
(* with a sink that accepts or refuses, 0 <= depth <= SJSON_MAX_DEPTH, so  *)
(* depth_stack[depth - 1], depth_stack[depth] and needs_comma[depth] are   *)
(* elements of the arrays of SJSON_MAX_DEPTH + 1 entries.                  *)
DepthInBounds(c) ==
    /\ c.depth \in 0..SJSON_MAX_DEPTH
    /\ DOMAIN c.depth_stack = 0..SJSON_MAX_DEPTH
    /\ DOMAIN c.needs_comma = 0..SJSON_MAX_DEPTH
    /\ c.depth \in DOMAIN c.depth_stack /\ c.depth \in DOMAIN c.needs_comma
    /\ c.depth > 0 => (c.depth - 1) \in DOMAIN c.depth_stack

AnyCall(w) ==
    {sjson_Close(w), sjson_End(w), sjson_Flush(w),
     sjson_InitObject(w, TRUE, ctx.buffer_size, TRUE),
     sjson_InitArray(w, TRUE, ctx.buffer_size, TRUE),
     sjson_AddArrayToObject(w, <<"a">>), sjson_AddObjectToObject(w, <<"a">>),
     sjson_AddStringToObject(w, <<"a">>, <<"x">>), sjson_AddIntToObject(w, <<"a">>, 7),
     sjson_AddFloatToObject(w, <<"a">>, 500000), sjson_AddNumberToObject(w, <<"a">>, 500000),
     sjson_AddRawToObject(w, <<"a">>, <<"{", "}">>),
     sjson_AddIntArrayToObject(w, <<"a">>, <<7>>),
     sjson_AddFloatArrayToObject(w, <<"a">>, <<500000>>),
     sjson_AddIntToArray(w, 7), sjson_AddFloatToArray(w, 500000),
     sjson_AddStringToArray(w, <<"x">>)}

C12_DepthBound ==
    Initialized =>
        /\ DepthInBounds(ctx)
        /\ \A b \in {0, NoFail} : \A r \in AnyCall(W(b)) : DepthInBounds(r.c)

C12_Witness ==
    /\ Live /\ ctx.depth = SJSON_MAX_DEPTH
    /\ TopIsArray(ctx)
    /\ last.op = "AddArrayToObject" /\ last.status = SJSON_OK

-----------------------------------------------------------------------------
(* C13: in every reachable state, and after one more call of any operation *)
(* with a sink that accepts or refuses, 0 <= used <= buffer_size, the      *)
(* buffer holds no more than buffer_size bytes, and no sink call carries   *)
(* more than buffer_size bytes.                                            *)
UsedInBounds(c) ==
    /\ c.used \in 0..c.buffer_size
    /\ Len(c.buffer) <= c.buffer_size

C13_BufferBound ==
    Initialized =>
        /\ UsedInBounds(ctx)
        /\ \A b \in AllBudgets : \A r \in AnyCall(W(b)) :
               /\ UsedInBounds(r.c)
               /\ \A i \in 1..Len(r.calls) : Len(r.calls[i].data) <= r.c.buffer_size

C13_Witness ==
    /\ last.op = "AddStringToObject" /\ last.status = SJSON_ERROR_BUFFER_FULL
    /\ ctx.buffer_size = MaxCap
    /\ ctx.used = ctx.buffer_size
    /\ fails = MaxFails

-----------------------------------------------------------------------------
(* C14: sjson_InitObject and sjson_InitArray called without a buffer, with *)
(* buffer_size 0 or without a callback return SJSON_ERROR_INVALID_PARAM,   *)
(* make no sink call and leave the context as it was.  Called with valid   *)
(* arguments on any context (fresh, in the middle of a document or         *)
(* finalized), when they return SJSON_OK the context has depth 1, the      *)
(* closer of the root kind in depth_stack[0], needs_comma[1] false,        *)
(* finalized false, and the call has emitted exactly the opening token.    *)
BadInitArgs ==
    {[has_buffer |-> FALSE, size |-> 1, has_callback |-> TRUE],
     [has_buffer |-> TRUE, size |-> 0, has_callback |-> TRUE],
     [has_buffer |-> TRUE, size |-> 1, has_callback |-> FALSE],
     [has_buffer |-> FALSE, size |-> 0, has_callback |-> FALSE]}

InitRefused(r) ==
    /\ r.status = SJSON_ERROR_INVALID_PARAM
    /\ r.c = ctx /\ r.calls = <<>> /\ r.sent = sent

Begun(r, opener, closer) ==
    r.status = SJSON_OK =>
        /\ r.c.depth = 1
        /\ r.c.depth_stack = [ZeroStack EXCEPT ![0] = closer]
        /\ ~r.c.needs_comma[1]
        /\ ~r.c.finalized
        /\ Emitted(r.c, r.sent) = <<opener>>

C14_Begin ==
    /\ \A p \in BadInitArgs : \A b \in AllBudgets :
           /\ InitRefused(sjson_InitObject(W(b), p.has_buffer, p.size, p.has_callback))
           /\ InitRefused(sjson_InitArray(W(b), p.has_buffer, p.size, p.has_callback))
    /\ \A n \in 1..MaxCap : \A b \in AllBudgets :
           /\ Begun(sjson_InitObject(World(ctx, <<>>, b), TRUE, n, TRUE), "{", "}")
           /\ Begun(sjson_InitArray(World(ctx, <<>>, b), TRUE, n, TRUE), "[", "]")

C14_Witness ==
    /\ last.op = "InitArray" /\ last.status = SJSON_OK
    /\ ctx.depth = 1 /\ ctx.depth_stack[0] = "]"
    /\ fails = MaxFails

-----------------------------------------------------------------------------
(* C15: in a non-finalized state whose top collection is an object, with a *)
(* sink that accepts, sjson_AddIntArrayToObject(key, values) (and the      *)
(* float variant) returns the same status, emits the same bytes and leaves *)
(* the same depth, open closers and needs_comma[depth] as                  *)
(* sjson_AddArrayToObject(key), one element add per value, sjson_Close,    *)
(* run until the first call that fails.  The code does not have this       *)
(* property.                                                               *)
AddElement(w, kind, v) ==
    IF kind = "int" THEN sjson_AddIntToArray(w, v) ELSE sjson_AddFloatToArray(w, v)

RECURSIVE ElementsBySteps(_, _, _, _)
ElementsBySteps(w, values, i, kind) ==
    IF i > Len(values) THEN Ret(w, SJSON_OK)
    ELSE LET r == AddElement(w, kind, values[i])
         IN IF r.status # SJSON_OK THEN r ELSE ElementsBySteps(r, values, i + 1, kind)

ArrayBySteps(w, key, values, kind) ==
    LET o == sjson_AddArrayToObject(w, key)
    IN IF o.status # SJSON_OK THEN o
       ELSE LET e == ElementsBySteps(o, values, 1, kind)
            IN IF e.status # SJSON_OK THEN e ELSE sjson_Close(e)

OpenClosers(c) == [i \in 0..(c.depth - 1) |-> c.depth_stack[i]]

SameOutcome(x, y) ==
    /\ x.status = y.status
    /\ Emitted(x.c, x.sent) = Emitted(y.c, y.sent)
    /\ x.c.depth = y.c.depth
    /\ OpenClosers(x.c) = OpenClosers(y.c)
    /\ x.c.needs_comma[x.c.depth] = y.c.needs_comma[y.c.depth]

C15_ConvenienceArrayEquivalence ==
    (Live /\ TopIsObject(ctx)) =>
        /\ \A v \in IntArrays :
               SameOutcome(sjson_AddIntArrayToObject(W(NoFail), <<"a">>, v),
                           ArrayBySteps(W(NoFail), <<"a">>, v, "int"))
        /\ \A v \in FloatArrays :
               SameOutcome(sjson_AddFloatArrayToObject(W(NoFail), <<"a">>, v),
                           ArrayBySteps(W(NoFail), <<"a">>, v, "float"))

-----------------------------------------------------------------------------
(* C16: in one call of any operation, a sink invocation that returns false *)
(* is the last one the call makes; the call then returns                   *)
(* SJSON_ERROR_BUFFER_FULL and the bytes offered to that invocation are    *)
(* the used bytes of the buffer on return.                                 *)
NoRetry(r) ==
    /\ \A i \in 1..(Len(r.calls) - 1) : r.calls[i].ok
    /\ (r.calls # <<>> /\ ~r.calls[Len(r.calls)].ok) =>
           /\ r.status = SJSON_ERROR_BUFFER_FULL
           /\ r.c.used = Len(r.calls[Len(r.calls)].data)
           /\ SubSeq(r.c.buffer, 1, r.c.used) = r.calls[Len(r.calls)].data

C16_NoAutoRetry ==
    Initialized =>
        \A b \in AllBudgets : \A r \in AnyCall(W(b)) : NoRetry(r)

C16_Witness ==
    /\ last.op = "End" /\ last.status = SJSON_ERROR_BUFFER_FULL
    /\ ~ctx.finalized /\ ctx.depth >= 1
    /\ ctx.used = ctx.buffer_size

-----------------------------------------------------------------------------
(* C17: called on an open object with a zero-length key, every keyed       *)
(* operation returns SJSON_ERROR_INVALID_PARAM without invoking the sink   *)
(* or changing the context.  The code does not have this property.         *)
EmptyKeyCalls(w) ==
    {sjson_AddArrayToObject(w, <<>>), sjson_AddObjectToObject(w, <<>>)}
    \cup {sjson_AddStringToObject(w, <<>>, v) : v \in StrValues}
    \cup {sjson_AddIntToObject(w, <<>>, v) : v \in IntValues}
    \cup {sjson_AddFloatToObject(w, <<>>, v) : v \in FloatValues}
    \cup {sjson_AddNumberToObject(w, <<>>, v) : v \in FloatValues}
    \cup {sjson_AddRawToObject(w, <<>>, v) : v \in RawValues}
    \cup {sjson_AddIntArrayToObject(w, <<>>, v) : v \in IntArrays}
    \cup {sjson_AddFloatArrayToObject(w, <<>>, v) : v \in FloatArrays}

C17_ZeroLengthKey ==
    (Live /\ TopIsObject(ctx)) =>
        \A r \in EmptyKeyCalls(W(NoFail)) : InitRefused(r)

-----------------------------------------------------------------------------
(* C18: however the bytes of a well-formed object are divided into chunks, *)
(* the caller that appends a chunk, scans, consumes after every found pair *)
(* and otherwise appends more and scans again never gets an error and is   *)
(* told the top-level pairs of the object in order; a scan that stopped in *)
(* the middle of a key or value is resumed by the next one.  The code does *)
(* not have this property.                                                 *)
IsPrefix(f, d) == Len(f) <= Len(d) /\ SubSeq(d, 1, Len(f)) = f

C18_ChunkingIndependence ==
    (scan.strict /\ scan.doc \in DOMAIN DocPairs) =>
        /\ scan.ret # -1
        /\ IsPrefix(scan.found, DocPairs[scan.doc])

-----------------------------------------------------------------------------
(* C19: once every pair of a well-formed object has been found and         *)
(* consumed, the next scan reports the end of the object with a result     *)
(* that differs from the results for a found pair, for an error and for    *)
(* input that stops short.  The code does not have this property.          *)
ObjectDone ==
    /\ scan.strict
    /\ scan.doc \in DOMAIN DocPairs
    /\ scan.fed = Len(DocBytes(scan.doc))
    /\ scan.found = DocPairs[scan.doc]
    /\ ~PairPending(scan.p)

(* What a scan returns for an object of which only the start has arrived.  *)
NeedMoreInput ==
    find_key_value_pair([FreshScanState EXCEPT
                            !.parse_buffer = <<"{", "\"", "a", "\"", ":">>,
                            !.parse_buffer_len = 5]).ret

C19_ObjectComplete ==
    ObjectDone =>
        LET r == find_key_value_pair(scan.p)
        IN r.ret \notin {NeedMoreInput, Found(r.p).ret, ScanError(r.p).ret}

-----------------------------------------------------------------------------
(* C20: a scan reports a pair only at a ',' or '}' outside every string of *)
(* the value with both depth counters at zero; the bytes of a string       *)
(* neither change a depth counter nor end the value; a key nested in an    *)
(* object or array value is never reported.                                *)
RECURSIVE Structure(_, _, _)
Structure(bytes, i, st) ==
    IF i > Len(bytes) THEN st
    ELSE LET c == bytes[i]
         IN Structure(bytes, i + 1,
                IF st.quoted
                THEN IF st.escaped THEN [st EXCEPT !.escaped = FALSE]
                     ELSE IF c = "\\" THEN [st EXCEPT !.escaped = TRUE]
                     ELSE IF c = "\"" THEN [st EXCEPT !.quoted = FALSE]
                     ELSE st
                ELSE IF c = "\"" THEN [st EXCEPT !.quoted = TRUE]
                ELSE IF c = "{" THEN [st EXCEPT !.braces = @ + 1]
                ELSE IF c = "}" THEN [st EXCEPT !.braces = @ - 1]
                ELSE IF c = "[" THEN [st EXCEPT !.brackets = @ + 1]
                ELSE IF c = "]" THEN [st EXCEPT !.brackets = @ - 1]
                ELSE st)

StructureOf(bytes) ==
    Structure(bytes, 1, [quoted |-> FALSE, escaped |-> FALSE,
                         braces |-> 0, brackets |-> 0])

(* The top-level pairs of a document with their keys as key_buffer can     *)
(* hold them.                                                              *)
KeyPrefix(key) ==
    IF Len(key) < KeyBufSize THEN key ELSE SubSeq(key, 1, KeyBufSize - 1)

TopLevelPairs(d) ==
    {[key |-> KeyPrefix(PairsOf(d)[i].key), value |-> PairsOf(d)[i].value] :
        i \in 1..Len(PairsOf(d))}

C20_TopLevelOnly ==
    LET r == find_key_value_pair(scan.p)
        p == r.p
        seen == SubSeq(p.parse_buffer, p.value_start + 1, p.parse_buffer_len)
    IN /\ r.ret = 1 =>
              /\ p.parse_buffer[p.value_start + p.value_len + 1] \in {",", "}"}
              /\ p.brace_depth = 0 /\ p.bracket_depth = 0 /\ ~p.in_quotes
              /\ StructureOf(FoundPair(p).value)
                   = [quoted |-> FALSE, escaped |-> FALSE,
                      braces |-> 0, brackets |-> 0]
              /\ FoundPair(p) \in TopLevelPairs(scan.doc)
       /\ (r.ret = 0 /\ p.state = PARSE_STATE_IN_VALUE) =>
              /\ p.in_quotes = StructureOf(seen).quoted
              /\ p.escape_next = StructureOf(seen).escaped
              /\ p.brace_depth = StructureOf(seen).braces
              /\ p.bracket_depth = StructureOf(seen).brackets

(* Both pairs of the second document have been reported: a string full of  *)
(* delimiters and an array holding an object with a key of its own.        *)
C20_Witness ==
    /\ scan.doc = 2
    /\ PairPending(scan.p)
    /\ scan.found = Doc2Pairs

-----------------------------------------------------------------------------
(* C21: inside a quoted value a backslash makes the scanner skip the byte  *)
(* that follows, so an escaped quote does not close the string: a string   *)
(* value is reported as the whole literal, from its opening quote to its   *)
(* closing quote, and a scan that stops before the closing quote is still  *)
(* inside the string.                                                      *)
RECURSIVE ClosingQuote(_, _)
ClosingQuote(v, i) ==
    IF i > Len(v) THEN 0
    ELSE IF v[i] = "\\" THEN ClosingQuote(v, i + 2)
    ELSE IF v[i] = "\"" THEN i
    ELSE ClosingQuote(v, i + 1)

C21_EscapeInValue ==
    LET r == find_key_value_pair(scan.p)
        p == r.p
        value == FoundPair(p).value
        seen == SubSeq(p.parse_buffer, p.value_start + 1, p.parse_buffer_len)
    IN /\ (r.ret = 1 /\ value[1] = "\"") =>
              ClosingQuote(value, 2) = Len(value)
       /\ (r.ret = 0 /\ p.state = PARSE_STATE_IN_VALUE /\ seen[1] = "\""
             /\ ClosingQuote(seen, 2) = 0) =>
              p.in_quotes

(* The string with an escaped quote has been reported, whole.              *)
C21_Witness ==
    /\ scan.doc = 2
    /\ PairPending(scan.p)
    /\ scan.found = <<Doc2Pairs[1]>>
    /\ <<"\\", "\"">> = SubSeq(FoundPair(scan.p).value, 7, 8)

-----------------------------------------------------------------------------
(* C22: a key ends only at an unescaped quote: while the buffer holds the  *)
(* opening quote of a key and no unescaped quote after it, a scan stops    *)
(* inside the key, and the key of a found pair runs up to the first        *)
(* unescaped quote.  The code does not have this property.                 *)
C22_KeyTermination ==
    LET r == find_key_value_pair(scan.p)
        buf == scan.p.parse_buffer
        open == FindQuote(buf, 1)
        close == ClosingQuote(buf, open + 1)
    IN (scan.p.state = PARSE_STATE_SEEKING_KEY /\ open # 0) =>
          /\ close = 0 => (r.ret = 0 /\ r.p.state = PARSE_STATE_IN_KEY)
          /\ r.ret = 1 =>
                 FoundPair(r.p).key = KeyPrefix(SubSeq(buf, open + 1, close - 1))

-----------------------------------------------------------------------------
(* C23: every byte the scanner processes leaves the phase as it is, moves  *)
(* it to the next phase in the order seeking key, in key, seeking colon,   *)
(* seeking value, in value, or takes it back to seeking key.               *)
ScanBytes == {"{", "}", "[", "]", "\"", ":", ",", "\\", " ", "1", "x"}

(* The scanner, in state p, processing one more byte c.                    *)
NextByte(p, c) ==
    scan_byte([p EXCEPT !.parse_buffer = Append(@, c), !.parse_buffer_len = @ + 1],
              c, p.parse_buffer_len)

PhaseRank(state) ==
    CASE state = PARSE_STATE_SEEKING_KEY -> 0
      [] state = PARSE_STATE_IN_KEY -> 1
      [] state = PARSE_STATE_SEEKING_COLON -> 2
      [] state = PARSE_STATE_SEEKING_VALUE -> 3
      [] state = PARSE_STATE_IN_VALUE -> 4

C23_PhaseOrdering ==
    \A c \in ScanBytes :
        LET q == NextByte(scan.p, c).p
        IN \/ q.state = scan.p.state
           \/ PhaseRank(q.state) = PhaseRank(scan.p.state) + 1
           \/ q.state = PARSE_STATE_SEEKING_KEY

(* A scan has stopped right behind the colon, three phases on.             *)
C23_Witness ==
    /\ scan.ret = 0
    /\ scan.p.state = PARSE_STATE_SEEKING_VALUE
    /\ scan.p.parse_buffer[scan.p.parse_buffer_len] = ":"

-----------------------------------------------------------------------------
(* C24: while a key is sought, a byte other than whitespace, '{', '"' and  *)
(* '}' ends the scan with the error result; while the colon is sought, a   *)
(* byte other than whitespace and ':' does; no pair is reported.           *)
Whitespace == {" ", "\t", "\n", "\r"}

C24_SyntaxErrors ==
    \A c \in ScanBytes :
        LET r == NextByte(scan.p, c)
            refused == r.done /\ r.ret = -1 /\ ~PairPending(r.p)
        IN /\ (scan.p.state = PARSE_STATE_SEEKING_KEY
                 /\ c \notin Whitespace \cup {"{", "\"", "}"}) => refused
           /\ (scan.p.state = PARSE_STATE_SEEKING_COLON
                 /\ c \notin Whitespace \cup {":"}) => refused

(* The stray byte behind the first pair has been refused: one pair was     *)
(* reported, the scan failed and emptied the buffer.                       *)
C24_Witness ==
    /\ scan.doc = StrayByteDoc
    /\ scan.ret = -1
    /\ scan.found = PairsOf(StrayByteDoc)
    /\ scan.fed = Len(DocBytes(StrayByteDoc))
    /\ scan.p.parse_buffer_len = 0

-----------------------------------------------------------------------------
(* C25: only the one '{' that opens the object is skipped while a key is   *)
(* sought: a scan that meets a second '{' in front of the first key, or a  *)
(* '{' in front of a later key, returns the error result.  The code does   *)
(* not have this property.                                                 *)
RECURSIVE LeadingBraces(_, _)
LeadingBraces(buf, i) ==
    IF i > Len(buf) THEN 0
    ELSE IF buf[i] = "{" THEN 1 + LeadingBraces(buf, i + 1)
    ELSE IF buf[i] \in Whitespace THEN LeadingBraces(buf, i + 1)
    ELSE 0

C25_SingleLeadingBrace ==
    LET opened == IF scan.found = <<>> THEN 0 ELSE 1
    IN (scan.p.state = PARSE_STATE_SEEKING_KEY
          /\ opened + LeadingBraces(scan.p.parse_buffer, 1) >= 2) =>
           find_key_value_pair(scan.p).ret = -1

-----------------------------------------------------------------------------
(* C26: whenever a scan returns the error result it leaves the scan state  *)
(* reset: seeking a key, with key position, depths, value start and length *)
(* at 0 and both flags cleared.  The code does not have this property.     *)
TrackingReset(p) ==
    /\ p.state = PARSE_STATE_SEEKING_KEY
    /\ p.key_pos = 0
    /\ p.brace_depth = 0 /\ p.bracket_depth = 0
    /\ p.value_start = 0 /\ p.value_len = 0
    /\ ~p.in_quotes /\ ~p.escape_next

C26_ResetOnError ==
    LET r == find_key_value_pair(scan.p)
    IN r.ret = -1 => TrackingReset(r.p)

-----------------------------------------------------------------------------
(* C27: after a found pair, consume removes the first value_start +        *)
(* value_len + 1 bytes of the buffer, the pair and the delimiter behind    *)
(* it; the bytes behind them move to the front in their order, the length  *)
(* goes down by that number, and the tracking fields are reset.            *)
C27_Consume ==
    PairPending(scan.p) =>
        LET p == scan.p
            n == p.value_start + p.value_len + 1
            q == shift_parse_buffer_by_key_value(p)
        IN /\ p.parse_buffer[n] \in {",", "}"}
           /\ SubSeq(p.parse_buffer, n - p.value_len, n - 1) = FoundPair(p).value
           /\ q.parse_buffer_len = p.parse_buffer_len - n
           /\ Len(q.parse_buffer) = q.parse_buffer_len
           /\ \A i \in 1..q.parse_buffer_len : q.parse_buffer[i] = p.parse_buffer[n + i]
           /\ q.parse_buffer
                = SubSeq(DocBytes(scan.doc), scan.fed - q.parse_buffer_len + 1, scan.fed)
           /\ TrackingReset(q)

(* A pair has been consumed and bytes of the next one are left in front.   *)
C27_Witness ==
    /\ scan.strict
    /\ scan.ret = 1
    /\ scan.found # <<>>
    /\ ~PairPending(scan.p)
    /\ scan.p.parse_buffer_len > 0
    /\ scan.p.parse_buffer[1] = "\""

-----------------------------------------------------------------------------
(* C28: the key position stays between 0 and the size of the key buffer    *)
(* less one; the bytes of a longer key that have no room are dropped, the  *)
(* scan goes on without the error result, and the pair is reported with    *)
(* the first 63 bytes of its key.                                          *)
C28_KeyBound ==
    LET r == find_key_value_pair(scan.p)
    IN /\ scan.p.key_pos >= 0 /\ scan.p.key_pos <= KeyBufSize - 1
       /\ r.p.key_pos >= 0 /\ r.p.key_pos <= KeyBufSize - 1
       /\ (scan.doc = LongKeyDoc /\ scan.p.state = PARSE_STATE_SEEKING_KEY) =>
              /\ r.ret # -1
              /\ scan.p.parse_buffer = DocBytes(LongKeyDoc) =>
                     /\ r.ret = 1
                     /\ FoundPair(r.p) = [key |-> SubSeq(LongScanKey, 1, KeyBufSize - 1),
                                          value |-> <<"1">>]

(* The pair with the long key has been reported.                           *)
C28_Witness ==
    /\ scan.doc = LongKeyDoc
    /\ scan.ret = 1
    /\ PairPending(scan.p)
    /\ scan.p.key_pos = KeyBufSize - 1
    /\ Len(FoundPair(scan.p).key) = KeyBufSize - 1
    /\ Len(PairsOf(LongKeyDoc)[1].key) > KeyBufSize - 1

-----------------------------------------------------------------------------
(* C29: a scan that finds a pair leaves the phase in value, with the key   *)
(* buffer, value_start and value_len describing the pair; as long as the   *)
(* pair is not consumed and the state not reset, a further scan changes    *)
(* nothing and reports no other pair.                                      *)
C29_FoundHeld ==
    LET r == find_key_value_pair(scan.p)
    IN /\ r.ret = 1 =>
              /\ r.p.state = PARSE_STATE_IN_VALUE
              /\ PairPending(r.p)
              /\ r.p.parse_buffer = scan.p.parse_buffer
              /\ FoundPair(r.p) \in TopLevelPairs(scan.doc)
       /\ PairPending(scan.p) =>
              /\ scan.p.state = PARSE_STATE_IN_VALUE
              /\ FoundPair(scan.p) = scan.found[Len(scan.found)]
              /\ r.p = scan.p
              /\ r.ret # 1

(* A found pair was scanned again and is still held.                       *)
C29_Witness ==
    /\ PairPending(scan.p)
    /\ scan.ret = -1
    /\ scan.p.state = PARSE_STATE_IN_VALUE
    /\ scan.found = <<Doc1Pairs[1], Doc1Pairs[2]>>
    /\ FoundPair(scan.p) = Doc1Pairs[2]

-----------------------------------------------------------------------------
(* C30: the sink is invoked only with a full buffer while something is     *)
(* written, by sjson_Flush, and by the last flush of the close of the root *)
(* collection; every invocation carries at least 1 and at most buffer_size *)
(* bytes; the bytes the sink accepted are, in the order of the             *)
(* invocations, consecutive pieces of the bytes written.                   *)
RECURSIVE Delivered(_, _)
Delivered(calls, i) ==
    IF i > Len(calls) THEN <<>>
    ELSE (IF calls[i].ok THEN calls[i].data ELSE <<>>) \o Delivered(calls, i + 1)

SizesInBounds(r) ==
    \A i \in 1..Len(r.calls) :
        Len(r.calls[i].data) >= 1 /\ Len(r.calls[i].data) <= r.c.buffer_size

FullUpTo(r, n) ==
    \A i \in 1..n : Len(r.calls[i].data) = r.c.buffer_size

InPieces(w, r) ==
    /\ r.sent = w.sent \o Delivered(r.calls, 1)
    /\ IsPrefix(Emitted(w.c, w.sent), Emitted(r.c, r.sent))

C30_SinkDiscipline ==
    Initialized =>
        \A b \in AllBudgets :
            LET w == W(b)
                close == sjson_Close(w)
                end == sjson_End(w)
                flush == sjson_Flush(w)
            IN /\ \A r \in AnyCall(w) : SizesInBounds(r)
               /\ \A r \in ObjectWrites(w) \cup ArrayWrites(w) :
                      FullUpTo(r, Len(r.calls)) /\ InPieces(w, r)
               /\ \A n \in 1..MaxCap :
                      \A r \in {sjson_InitObject(w, TRUE, n, TRUE),
                                 sjson_InitArray(w, TRUE, n, TRUE)} :
                          FullUpTo(r, Len(r.calls)) /\ SizesInBounds(r)
               /\ \A r \in {close, end} :
                      /\ FullUpTo(r, Len(r.calls) - 1)
                      /\ ~FullUpTo(r, Len(r.calls)) => (r.c.finalized /\ r.c.depth = 0)
                      /\ InPieces(w, r)
               /\ Len(flush.calls) <= 1 /\ InPieces(w, flush)

(* The root was closed with one byte in a buffer of two: the sink got full *)
(* buffers first and the last byte from the last flush.                    *)
C30_Witness ==
    /\ last.op = "Close" /\ last.status = SJSON_OK
    /\ ctx.finalized /\ ctx.used = 0
    /\ ctx.buffer_size = 2
    /\ Len(sent) >= 5 /\ Len(sent) % 2 = 1

-----------------------------------------------------------------------------
(* C31: an operation returns SJSON_ERROR_BUFFER_FULL only if the sink      *)
(* refused an invocation made by that operation; with a sink that accepts, *)
(* no add returns it, however long its key.  The code does not have this   *)
(* property.                                                               *)
C31_BufferFullMeansSinkFailure ==
    Live =>
        \A b \in AllBudgets :
            \A r \in AnyCall(W(b)) \cup WritesAndClose(W(b)) :
                r.status = SJSON_ERROR_BUFFER_FULL => Rejected(r.calls) > 0

-----------------------------------------------------------------------------
(* C32: when sjson_Close fails because the sink refused a flush made while *)
(* the closer was written, the closer is not left in the buffer, and a     *)
(* second sjson_Close with a sink that accepts adds the closer to the      *)
(* output exactly once.  The code does not have this property.             *)
C32_CloseRetryOnce ==
    (Live /\ ctx.depth >= 1) =>
        \A b \in AllBudgets :
            LET r == sjson_Close(W(b))
                again == sjson_Close(World(r.c, r.sent, NoFail))
                closer == ctx.depth_stack[ctx.depth - 1]
            IN RejectedWhileWriting(r) =>
                   /\ Emitted(r.c, r.sent) = Emitted(ctx, sent)
                   /\ Emitted(again.c, again.sent) = Emitted(ctx, sent) \o <<closer>>

-----------------------------------------------------------------------------
(* C33: when an add fails because the sink refused a flush made while the  *)
(* member was written, and the caller then flushes with success and calls  *)
(* the same add again, the bytes emitted are those the add emits when the  *)
(* sink never fails.  The code does not have this property.                *)
AddOps == {"StringToObject", "IntToObject", "IntArrayToObject", "ObjectToObject",
           "IntToArray", "StringToArray"}

AddCall(w, op) ==
    CASE op = "StringToObject" -> sjson_AddStringToObject(w, <<"a">>, <<"x">>)
      [] op = "IntToObject" -> sjson_AddIntToObject(w, <<"a">>, 7)
      [] op = "IntArrayToObject" -> sjson_AddIntArrayToObject(w, <<"a">>, <<7>>)
      [] op = "ObjectToObject" -> sjson_AddObjectToObject(w, <<"a">>)
      [] op = "IntToArray" -> sjson_AddIntToArray(w, 7)
      [] op = "StringToArray" -> sjson_AddStringToArray(w, <<"x">>)

C33_AddRetry ==
    Live =>
        \A b \in AllBudgets : \A op \in AddOps :
            LET r == AddCall(W(b), op)
                flushed == sjson_Flush(World(r.c, r.sent, NoFail))
                again == AddCall(World(flushed.c, flushed.sent, NoFail), op)
                good == AddCall(W(NoFail), op)
            IN (r.status = SJSON_ERROR_BUFFER_FULL /\ Rejected(r.calls) > 0) =>
                   /\ again.status = good.status
                   /\ Emitted(again.c, again.sent) = Emitted(good.c, good.sent)

-----------------------------------------------------------------------------
(* C34: on a context with an open collection that is not finalized,        *)
(* sjson_End makes at most depth calls of sjson_Close; with a sink that    *)
(* accepts it returns SJSON_OK and leaves finalized set, depth 0 and       *)
(* nothing buffered, also when it is called again after a call that the    *)
(* sink made fail; and once the sink fails no more, the caller that goes   *)
(* on calling sjson_End gets there.                                        *)
RECURSIVE EndCloses(_)
EndCloses(w) ==
    IF w.c.depth > 0
    THEN LET r == sjson_Close(w)
         IN IF r.status # SJSON_OK THEN 1 ELSE 1 + EndCloses(r)
    ELSE 0

Finished(c) == c.finalized /\ c.depth = 0 /\ c.used = 0

EndOpen == Live /\ ctx.depth >= 1

EndFinishes ==
    \A b \in AllBudgets :
        LET r == sjson_End(W(b))
            again == sjson_End(World(r.c, r.sent, NoFail))
        IN /\ EndCloses(W(b)) <= ctx.depth
           /\ Rejected(r.calls) = 0 => (r.status = SJSON_OK /\ Finished(r.c))
           /\ Rejected(r.calls) > 0 =>
                  /\ r.status = SJSON_ERROR_BUFFER_FULL
                  /\ again.status = SJSON_OK /\ Finished(again.c)

C34_EventualFinalization ==
    /\ [](EndOpen => EndFinishes)
    /\ (EndOpen /\ fails = MaxFails) ~> Finished(ctx)

(* After the sink has failed for the last time, sjson_End finished a       *)
(* document in which three collections were opened.                        *)
C34_Witness ==
    /\ last.op = "End" /\ last.status = SJSON_OK
    /\ Finished(ctx)
    /\ fails = MaxFails
    /\ opens = EndMaxOpens

-----------------------------------------------------------------------------
(* C35: whenever find_key_value_pair returns 1, value_start >= 0,           *)
(* value_len >= 1 and value_start + value_len < parse_buffer_len, so that  *)
(* the delimiter is a buffered byte and the shift that follows removes no  *)
(* more bytes than the buffer holds; the same holds of a found pair for as *)
(* long as it is held; parse_buffer_len is never negative; and             *)
(* shift_parse_buffer_by_key_value without a found pair changes nothing.   *)
SpanInside(p) ==
    /\ p.value_start >= 0
    /\ p.value_len >= 1
    /\ p.value_start + p.value_len < p.parse_buffer_len
    /\ p.parse_buffer_len <= Len(p.parse_buffer)
    /\ shift_parse_buffer_by_key_value(p).parse_buffer_len >= 0

C35_FoundSpanInside ==
    /\ LET r == find_key_value_pair(scan.p)
       IN r.ret = 1 => SpanInside(r.p)
    /\ PairPending(scan.p) => SpanInside(scan.p)
    /\ scan.p.parse_buffer_len >= 0
    /\ ~PairPending(scan.p) => shift_parse_buffer_by_key_value(scan.p) = scan.p

(* A pair was found whose delimiter is the last byte in the buffer, after  *)
(* an earlier pair had been consumed.                                      *)
C35_Witness ==
    /\ scan.ret = 1
    /\ PairPending(scan.p)
    /\ Len(scan.found) >= 2
    /\ scan.p.value_start + scan.p.value_len + 1 = scan.p.parse_buffer_len

-----------------------------------------------------------------------------
(* C36: find_key_value_pair called in a state other than SEEKING_KEY,      *)
(* inside a key, before the colon, before or inside a value, or with a     *)
(* found pair that was not consumed, returns -1 and changes no field of    *)
(* the parse state, whatever the buffer holds; only a call made in         *)
(* SEEKING_KEY returns 1 or 0 or changes the state.                        *)
OtherBuffers(p) ==
    {[p EXCEPT !.parse_buffer = b, !.parse_buffer_len = Len(b)] :
        b \in {<<>>, <<"}">>, <<"\"", "a", "\"", ":", "1", ",">>, <<"x">>}}

C36_EntryGuard ==
    /\ scan.p.state # PARSE_STATE_SEEKING_KEY =>
           /\ find_key_value_pair(scan.p) = [p |-> scan.p, ret |-> -1]
           /\ \A q \in OtherBuffers(scan.p) :
                  find_key_value_pair(q) = [p |-> q, ret |-> -1]
    /\ LET r == find_key_value_pair(scan.p)
       IN (r.ret # -1 \/ r.p # scan.p) => scan.p.state = PARSE_STATE_SEEKING_KEY

(* find_key_value_pair was called again after it had stopped inside a key. *)
C36_Witness ==
    /\ scan.strict
    /\ scan.ret = -1
    /\ scan.p.state = PARSE_STATE_IN_KEY
    /\ scan.p.key_pos >= 1
    /\ scan.found # <<>>

=============================================================================
